---- MODULE Spec2Model ----
(***************************************************************************)
(* Rotation notifier: the period calculator (utils/dateUtils.ts), the      *)
(* rotation engine (RotationService.ts) and its stores (StorageService.ts, *)
(* KVStorageService.ts, the KV-over-HTTP store of index.ts).               *)
(*                                                                         *)
(* An instant (a JS Date) is a record [day, ms]: whole days since          *)
(* 1970-01-01T00:00:00Z and milliseconds into that UTC day.  All date      *)
(* arithmetic of the source is carried out exactly on this pair.           *)
(***************************************************************************)
EXTENDS Integers, Sequences, FiniteSets, TLC

VARIABLES
    usersFile,   \* content of the file at usersFilePath  (read by StorageService)
    stateFile,   \* content of the file at stateFilePath  (written by StorageService)
    kv,          \* value under ROTATION_STATE_KEY in Vercel KV, or Null
    now,         \* the wall clock (new Date())
    last,        \* what the last handler was given, saw and returned
    calc,        \* period calculator: inputs drawn, function applied, result
    skips        \* concurrent skip handlers: where each is, and what it holds

vars == <<usersFile, stateFile, kv, now, last, calc, skips>>

----------------------------------------------------------------------------
\* JS values and number arithmetic

\* an optional number that is absent (interval?, dayOfWeek?, dayOfMonth?)
Undefined == -1

\* no value under the KV key / no file written yet
Null == [null |-> TRUE]

\* x || d on an optional number: undefined and 0 are both falsy
OrElse(x, d) == IF x = Undefined \/ x = 0 THEN d ELSE x

\* Math.floor(a / n), n > 0
FloorDiv(a, n) == IF a >= 0 THEN a \div n ELSE -((-a + n - 1) \div n)

\* Math.ceil(a / n), n > 0
CeilDiv(a, n) == -FloorDiv(-a, n)

\* the number NaN, and the null that JSON writes in its place
NaN == -2
JsonNull == -3

\* null where a number is expected counts as 0
ToNumber(x) == IF x = JsonNull THEN 0 ELSE x

\* a % n as JS computes it: the result takes the sign of the dividend, and x % 0 is NaN
JsRem(a, n) == IF n = 0 THEN NaN ELSE IF a >= 0 THEN a % n ELSE -((-a) % n)

\* the mathematical residue in 0..n-1
Residue(a, n) == a - n * FloorDiv(a, n)

----------------------------------------------------------------------------
\* JS Date: the proleptic Gregorian calendar in UTC

MsPerDay == 86400000
MsPerSecond == 1000
DaysPerWeek == 7

\* Date.UTC(y, m, d) in days, m in 1..12 (JS months are 0..11: see getUTCMonth)
DaysFromCivil(y, m, d) ==
    LET fromEra(era, yoe, doy) ==
            era * 146097 + (yoe * 365 + yoe \div 4 - yoe \div 100 + doy) - 719468
        fromYear(yy, mp) ==
            fromEra(FloorDiv(yy, 400), yy - FloorDiv(yy, 400) * 400,
                    (153 * mp + 2) \div 5 + d - 1)
    IN  fromYear(IF m <= 2 THEN y - 1 ELSE y, IF m > 2 THEN m - 3 ELSE m + 9)

\* [y, m, d] of a day number
CivilFromDays(z) ==
    LET fromMonth(era, yoe, doy, mp) ==
            [y |-> yoe + era * 400 + (IF mp < 10 THEN 0 ELSE 1),
             m |-> IF mp < 10 THEN mp + 3 ELSE mp - 9,
             d |-> doy - (153 * mp + 2) \div 5 + 1]
        fromDayOfYear(era, yoe, doy) == fromMonth(era, yoe, doy, (5 * doy + 2) \div 153)
        fromYearOfEra(era, doe, yoe) ==
            fromDayOfYear(era, yoe, doe - (365 * yoe + yoe \div 4 - yoe \div 100))
        fromDayOfEra(era, doe) ==
            fromYearOfEra(era, doe,
                (doe - doe \div 1460 + doe \div 36524 - doe \div 146096) \div 365)
        fromEra(zz, era) == fromDayOfEra(era, zz - era * 146097)
    IN  fromEra(z + 719468, FloorDiv(z + 719468, 146097))

Instant(y, m, d, ms) == [day |-> DaysFromCivil(y, m, d), ms |-> ms]

getUTCFullYear(t) == CivilFromDays(t.day).y
getUTCMonth(t)    == CivilFromDays(t.day).m - 1
getUTCDate(t)     == CivilFromDays(t.day).d
\* 0 = Sunday .. 6 = Saturday; 1970-01-01 was a Thursday
getUTCDay(t)      == Residue(t.day + 4, DaysPerWeek)

\* setUTCDate(getUTCDate() + k): the time of day is kept
AddDays(t, k) == [day |-> t.day + k, ms |-> t.ms]
\* setUTCHours(0, 0, 0, 0) and setUTCHours(23, 59, 59, 999)
StartOfDay(t) == [day |-> t.day, ms |-> 0]
EndOfDay(t)   == [day |-> t.day, ms |-> MsPerDay - 1]

\* a.getTime() <= b.getTime(), a.getTime() < b.getTime()
Leq(a, b) == a.day < b.day \/ (a.day = b.day /\ a.ms <= b.ms)
Lt(a, b)  == a.day < b.day \/ (a.day = b.day /\ a.ms < b.ms)

\* the instant one millisecond after / before t
Succ(t) == IF t.ms = MsPerDay - 1 THEN [day |-> t.day + 1, ms |-> 0]
           ELSE [day |-> t.day, ms |-> t.ms + 1]
Pred(t) == IF t.ms = 0 THEN [day |-> t.day - 1, ms |-> MsPerDay - 1]
           ELSE [day |-> t.day, ms |-> t.ms - 1]

\* Math.floor((b.getTime() - a.getTime()) / (k days)), k >= 1
FloorDiffDays(a, b, k) ==
    FloorDiv((b.day - a.day) + (IF b.ms >= a.ms THEN 0 ELSE -1), k)

\* Math.ceil((b.getTime() - a.getTime()) / (k days)), k >= 1
CeilDiffDays(a, b, k) == -FloorDiffDays(b, a, k)

\* date.toISOString(): the fields of "YYYY-MM-DDTHH:mm:ss.sssZ"
toISOString(t) ==
    LET c == CivilFromDays(t.day)
    IN  [y |-> c.y, m |-> c.m, d |-> c.d, ms |-> t.ms]

\* new Date(isoString)
ParseDate(s) == [day |-> DaysFromCivil(s.y, s.m, s.d), ms |-> s.ms]

\* toISOString().split('T')[0]: the date part alone, which parses as UTC midnight
DateOnly(t) == [toISOString(t) EXCEPT !.ms = 0]

----------------------------------------------------------------------------
\* utils/dateUtils.ts: the period calculator

\* Date.UTC(2024, 0, 1): the reference date of custom weeks and custom periods
EpochStart == Instant(2024, 1, 1, 0)

\* a variant that counts the weeks from 1 January of the date's calendar year
getISOWeekFromNewYear(date) ==
    LET dayNumber == (getUTCDay(date) + 6) % 7
        weekNumber == 1 + ((date.day - DaysFromCivil(getUTCFullYear(date), 1, 1)) \div 7)
    IN  [weekNumber   |-> weekNumber,
         periodNumber |-> weekNumber,
         startDate    |-> StartOfDay(AddDays(date, -dayNumber)),
         endDate      |-> EndOfDay(AddDays(date, 6 - dayNumber)),
         year         |-> getUTCFullYear(date),
         type         |-> "week"]

getISOWeek(date) ==
    LET dayNumber == (getUTCDay(date) + 6) % 7
        \* target.setUTCMonth(0, 1), then on to the year's first Thursday
        firstThursday(jan1) ==
            IF getUTCDay(jan1) # 4
            THEN AddDays(jan1, ((4 - getUTCDay(jan1)) + 7) % 7)
            ELSE jan1
        weekInfo(weekNumber, startDate, target) ==
            [weekNumber   |-> weekNumber,
             periodNumber |-> weekNumber,
             startDate    |-> startDate,
             endDate      |-> EndOfDay(AddDays(startDate, 6)),
             year         |-> getUTCFullYear(target),
             type         |-> "week"]
        numbered(thursday, target) ==
            weekInfo(1 + CeilDiffDays(target, thursday, DaysPerWeek),
                     StartOfDay(AddDays(date, -dayNumber)), target)
        \* target.setUTCDate(target.getUTCDate() - dayNumber + 3): the week's Thursday
        fromThursday(thursday) ==
            numbered(thursday,
                     firstThursday([day |-> DaysFromCivil(getUTCFullYear(thursday), 1, 1),
                                    ms  |-> thursday.ms]))
    IN  fromThursday(AddDays(date, 3 - dayNumber))

getCustomWeek(date, weekStartDay) ==
    LET daysSinceWeekStart   == (getUTCDay(date) - weekStartDay + 7) % 7
        daysToFirstWeekStart == (weekStartDay - getUTCDay(EpochStart) + 7) % 7
        epochWeekStart       == AddDays(EpochStart, daysToFirstWeekStart)
        weekInfo(weekNumber, startDate) ==
            [weekNumber   |-> weekNumber,
             periodNumber |-> weekNumber,
             startDate    |-> startDate,
             endDate      |-> EndOfDay(AddDays(startDate, 6)),
             year         |-> getUTCFullYear(date),
             type         |-> "week"]
        fromStart(startDate) ==
            weekInfo(FloorDiffDays(epochWeekStart, startDate, DaysPerWeek) + 1, startDate)
    IN  fromStart(StartOfDay(AddDays(date, -daysSinceWeekStart)))

WeekOf(date, weekStartDay) ==
    IF weekStartDay = 1 THEN getISOWeek(date) ELSE getCustomWeek(date, weekStartDay)

\* new Date(year, 11, 28) is local midnight; the process runs in UTC
getISOWeeksInYear(year) == getISOWeek(Instant(year, 12, 28, 0)).weekNumber

getWeeksBetween(startDate, endDate, weekStartDay) ==
    LET between(start, end) ==
            IF start.year = end.year
            THEN end.weekNumber - start.weekNumber
            ELSE IF weekStartDay # 1
            THEN FloorDiffDays(start.startDate, end.startDate, DaysPerWeek)
            ELSE (getISOWeeksInYear(start.year) - start.weekNumber)
                     + end.weekNumber + ((end.year - start.year - 1) * 52)
    IN  between(WeekOf(startDate, weekStartDay), WeekOf(endDate, weekStartDay))

isNewWeek(lastRotationDate, currentDate, weekStartDay) ==
    LET differ(lastWeek, currentWeek) ==
            lastWeek.weekNumber # currentWeek.weekNumber \/ lastWeek.year # currentWeek.year
    IN  differ(WeekOf(ParseDate(lastRotationDate), weekStartDay),
               WeekOf(currentDate, weekStartDay))

getDayPeriod(date) ==
    LET startDate == StartOfDay(date)
        endDate   == EndOfDay(startDate)
        \* Date.UTC(year, 0, 0): the last day of the year before
        start     == AddDays(Instant(getUTCFullYear(date), 1, 1, 0), -1)
        dayNumber == FloorDiffDays(start, date, 1)
    IN  [periodNumber |-> dayNumber,
         startDate    |-> startDate,
         endDate      |-> endDate,
         year         |-> getUTCFullYear(date),
         type         |-> "day"]

getBiWeeklyPeriod(date, config) ==
    LET period(weekInfo) ==
            [periodNumber |-> CeilDiv(weekInfo.weekNumber, 2),
             startDate    |-> weekInfo.startDate,
             endDate      |-> AddDays(weekInfo.endDate, DaysPerWeek),
             year         |-> weekInfo.year,
             type         |-> "week"]
    IN  period(WeekOf(date, OrElse(config.dayOfWeek, 1)))

getMonthPeriod(date) ==
    LET \* Date.UTC(y, m + 1, 0, 23, 59, 59, 999): day 0 of the next month
        nextFirst(y, m) == IF m = 11 THEN Instant(y + 1, 1, 1, 0) ELSE Instant(y, m + 2, 1, 0)
        period(y, m) ==
            [periodNumber |-> m + 1,
             startDate    |-> Instant(y, m + 1, 1, 0),
             endDate      |-> EndOfDay(AddDays(nextFirst(y, m), -1)),
             year         |-> y,
             type         |-> "month"]
    IN  period(getUTCFullYear(date), getUTCMonth(date))

\* a variant that rounds the period number toward zero, as Math.trunc would
getCustomPeriodTruncated(date, intervalDays) ==
    LET period(periodNumber, startDate) ==
            [periodNumber |-> periodNumber,
             startDate    |-> startDate,
             endDate      |-> EndOfDay(AddDays(startDate, intervalDays - 1)),
             year         |-> getUTCFullYear(date),
             type         |-> "custom"]
        numbered(periodNumber) ==
            period(periodNumber, StartOfDay(AddDays(EpochStart, periodNumber * intervalDays)))
        truncated(daysSinceEpoch) ==
            IF daysSinceEpoch >= 0 THEN daysSinceEpoch \div intervalDays
            ELSE -((-daysSinceEpoch) \div intervalDays)
    IN  numbered(truncated(FloorDiffDays(EpochStart, date, 1)))

getCustomPeriod(date, intervalDays) ==
    LET period(periodNumber, startDate) ==
            [periodNumber |-> periodNumber,
             startDate    |-> startDate,
             endDate      |-> EndOfDay(AddDays(startDate, intervalDays - 1)),
             year         |-> getUTCFullYear(date),
             type         |-> "custom"]
        numbered(periodNumber) ==
            period(periodNumber, StartOfDay(AddDays(EpochStart, periodNumber * intervalDays)))
    IN  numbered(FloorDiv(FloorDiffDays(EpochStart, date, 1), intervalDays))

getDaysBetween(startDate, endDate) == FloorDiffDays(startDate, endDate, 1)

getMonthsBetween(startDate, endDate) ==
    (getUTCFullYear(endDate) - getUTCFullYear(startDate)) * 12
        + (getUTCMonth(endDate) - getUTCMonth(startDate))

\* thrown by the default branch of the two switches on config.frequency
UnsupportedFrequency == [error |-> "Unsupported rotation frequency"]

getRotationPeriod(date, config) ==
    LET asPeriod(weekInfo) ==
            [weekInfo EXCEPT !.periodNumber = weekInfo.weekNumber, !.type = "week"]
    IN  CASE config.frequency = "daily"     -> getDayPeriod(date)
          [] config.frequency = "weekly"    ->
                asPeriod(WeekOf(date, OrElse(config.dayOfWeek, 1)))
          [] config.frequency = "bi-weekly" -> getBiWeeklyPeriod(date, config)
          [] config.frequency = "monthly"   -> getMonthPeriod(date)
          [] config.frequency = "custom"    ->
                getCustomPeriod(date, OrElse(config.interval, 7))
          [] OTHER                          -> UnsupportedFrequency

getPeriodsBetween(startDate, endDate, config) ==
    CASE config.frequency = "daily"     -> getDaysBetween(startDate, endDate)
      [] config.frequency = "weekly"    ->
            getWeeksBetween(startDate, endDate, OrElse(config.dayOfWeek, 1))
      [] config.frequency = "bi-weekly" ->
            FloorDiv(getWeeksBetween(startDate, endDate, OrElse(config.dayOfWeek, 1)), 2)
      [] config.frequency = "monthly"   -> getMonthsBetween(startDate, endDate)
      [] config.frequency = "custom"    ->
            FloorDiv(getDaysBetween(startDate, endDate), OrElse(config.interval, 7))
      [] OTHER                          -> UnsupportedFrequency

isNewRotationPeriod(lastRotationDate, currentDate, config) ==
    getPeriodsBetween(ParseDate(lastRotationDate), currentDate, config) > 0

\* getCurrentDateInTimezone('UTC') in a process whose zone is UTC:
\* toLocaleString() prints whole seconds, and the Date parsed back has lost the rest
getCurrentDateInTimezone(t) == [day |-> t.day, ms |-> t.ms - (t.ms % MsPerSecond)]

----------------------------------------------------------------------------
\* types/index.ts and the values the stores hold

Frequencies == {"daily", "weekly", "bi-weekly", "monthly", "custom"}

Config(frequency, interval, dayOfWeek) ==
    [frequency  |-> frequency,
     interval   |-> interval,
     dayOfWeek  |-> dayOfWeek,
     dayOfMonth |-> Undefined]

User(id, startDate) == [id |-> id, startDate |-> startDate]

RotationState(users, currentIndex, lastRotationDate, startDate, config) ==
    [users            |-> users,
     currentIndex     |-> currentIndex,
     lastRotationDate |-> lastRotationDate,
     startDate        |-> startDate,
     config           |-> config]

\* arr[i] of a JS array: undefined outside 0..length-1
NoUser == [undefined |-> TRUE]
ArrayAt(arr, i) == IF i >= 0 /\ i < Len(arr) THEN arr[i + 1] ELSE NoUser

\* arr.findIndex(u => u.id === id): the first match, -1 when there is none
FindIndex(arr, id) ==
    IF \E k \in 1..Len(arr) : arr[k].id = id
    THEN (CHOOSE k \in 1..Len(arr) :
              arr[k].id = id /\ \A j \in 1..(k - 1) : arr[j].id # id) - 1
    ELSE -1

\* the KV client has no connection (no KV_REST_API_URL / KV_REST_API_TOKEN): kv.get throws
Unavailable == [unavailable |-> TRUE]

\* the files and the KV entry a handler works on
World == [usersFile |-> usersFile, stateFile |-> stateFile, kv |-> kv]

\* a call's outcome: the world it leaves, and the value returned or the error thrown
Ok(w, v)     == [ok |-> TRUE, w |-> w, val |-> v]
Fail(w, msg) == [ok |-> FALSE, w |-> w, val |-> [error |-> msg]]

----------------------------------------------------------------------------
\* services/StorageService.ts: the file store

getDefaultRotationConfig == Config("weekly", Undefined, 1)

validateRotationConfig(config) ==
    /\ config.frequency \in Frequencies
    /\ ~(config.frequency = "custom" /\ (config.interval = Undefined \/ config.interval < 1))
    /\ (config.dayOfWeek # Undefined => ~(config.dayOfWeek < 0 \/ config.dayOfWeek > 6))
    /\ (config.dayOfMonth # Undefined => ~(config.dayOfMonth < 1 \/ config.dayOfMonth > 31))

validateRotationState(state) ==
    /\ Len(state.users) # 0
    /\ ~(state.currentIndex < 0)
    /\ state.lastRotationDate # Null /\ state.startDate # Null
    /\ state.config # Null
    /\ validateRotationConfig(state.config)
    /\ \A k \in 1..Len(state.users) :
           state.users[k].id # "" /\ state.users[k].startDate # Null

\* a call that hands on the value v when the call before it, u, went through
Returning(u, v) == IF ~u.ok THEN u ELSE Ok(u.w, v)

\* reads usersFilePath
SS_loadRotationState(w) ==
    LET validated(state) ==
            IF validateRotationState(state)
            THEN Ok(w, state)
            ELSE Fail(w, "Failed to load rotation state")
    IN  IF w.usersFile = Null
        THEN Fail(w, "Users file not found")
        ELSE validated(IF w.usersFile.config = Null
                       THEN [w.usersFile EXCEPT !.config = getDefaultRotationConfig]
                       ELSE w.usersFile)

\* writes stateFilePath (temporary file, then rename)
SS_saveRotationState(w, state) ==
    IF validateRotationState(state)
    THEN Ok([w EXCEPT !.stateFile = state], Null)
    ELSE Fail(w, "Failed to save rotation state")

\* updateRotationState once the state is loaded as l
SS_updateLoaded(l, currentIndex, lastRotationDate) ==
    IF ~l.ok THEN l
    ELSE SS_saveRotationState(l.w, [l.val EXCEPT !.currentIndex = currentIndex,
                                                 !.lastRotationDate = lastRotationDate])

SS_updateRotationState(w, currentIndex, lastRotationDate) ==
    SS_updateLoaded(SS_loadRotationState(w), currentIndex, lastRotationDate)

\* getCurrentUser once the state is loaded as l
SS_currentOf(l) ==
    IF ~l.ok THEN l
    ELSE IF Len(l.val.users) = 0 THEN Fail(l.w, "No users found in rotation")
    ELSE Ok(l.w, ArrayAt(l.val.users, JsRem(l.val.currentIndex, Len(l.val.users))))

SS_getCurrentUser(w) == SS_currentOf(SS_loadRotationState(w))

\* addUser once the state is loaded as l
SS_addLoaded(l, user) ==
    IF ~l.ok THEN l
    ELSE IF \E k \in 1..Len(l.val.users) : l.val.users[k].id = user.id
    THEN Fail(l.w, "User already exists in rotation")
    ELSE SS_saveRotationState(l.w, [l.val EXCEPT !.users = Append(@, user)])

SS_addUser(w, user) == SS_addLoaded(SS_loadRotationState(w), user)

\* arr.splice(i, 1)
Splice(arr, i) == [k \in 1..(Len(arr) - 1) |-> IF k <= i THEN arr[k] ELSE arr[k + 1]]

\* a variant that leaves the pointer where it was
IndexUnadjusted(state, userIndex) == state.currentIndex

\* the current index once the user at userIndex is gone
IndexWithout(state, userIndex) ==
    IF userIndex < state.currentIndex THEN state.currentIndex - 1
    ELSE IF userIndex = state.currentIndex /\ state.currentIndex >= Len(state.users) - 1
    THEN 0
    ELSE state.currentIndex

\* removeUser without the check that the user was found: splice(-1, 1) drops the last member
SS_removeUnlooked(l, userIndex) ==
    IF userIndex = -1
    THEN SS_saveRotationState(l.w, [l.val EXCEPT !.currentIndex = IndexWithout(l.val, userIndex),
                                                 !.users = SubSeq(@, 1, Len(@) - 1)])
    ELSE IF Len(l.val.users) - 1 = 0 THEN Fail(l.w, "Cannot remove last user from rotation")
    ELSE SS_saveRotationState(l.w, [l.val EXCEPT !.currentIndex = IndexWithout(l.val, userIndex),
                                                 !.users = Splice(@, userIndex)])

\* removeUser once the state is loaded as l and the user is looked up
SS_removeFound(l, userIndex) ==
    IF userIndex = -1 THEN Fail(l.w, "User not found in rotation")
    ELSE IF Len(l.val.users) - 1 = 0 THEN Fail(l.w, "Cannot remove last user from rotation")
    ELSE SS_saveRotationState(l.w, [l.val EXCEPT !.currentIndex = IndexWithout(l.val, userIndex),
                                                 !.users = Splice(@, userIndex)])

\* removeUser once the state is loaded as l
SS_removeLoaded(l, userId) ==
    IF ~l.ok THEN l ELSE SS_removeFound(l, FindIndex(l.val.users, userId))

SS_removeUser(w, userId) == SS_removeLoaded(SS_loadRotationState(w), userId)

----------------------------------------------------------------------------
\* services/KVStorageService.ts: the KV store

\* the embedded default roster
DefaultUserIds ==
    <<"staff.member1", "staff.member2", "staff.member3", "staff.member4", "staff.member5">>

\* the default state dated today
defaultStateOn(today) ==
    RotationState([k \in 1..Len(DefaultUserIds) |-> User(DefaultUserIds[k], today)],
                  0, today, today, Config("weekly", Undefined, 5))

\* today = new Date().toISOString().split('T')[0]
defaultState(t) == defaultStateOn(DateOnly(t))

\* the state as kv.set serialises it: JSON has no NaN
Stringified(state) ==
    IF state.currentIndex = NaN THEN [state EXCEPT !.currentIndex = JsonNull] ELSE state

KV_saveRotationState(w, state) ==
    IF w.kv = Unavailable
    THEN Fail(w, "Failed to save rotation state")
    ELSE Ok([w EXCEPT !.kv = Stringified(state)], Null)

\* the default state is returned once its save, sv, went through
KV_seeded(sv, t) ==
    IF sv.ok THEN Ok(sv.w, defaultState(t))
    ELSE Fail(sv.w, "Failed to load rotation state")

\* kv.get, and when nothing is stored: save the default state and return it
KV_loadRotationState(w, t) ==
    IF w.kv = Unavailable THEN Fail(w, "Failed to load rotation state")
    ELSE IF w.kv # Null THEN Ok(w, w.kv)
    ELSE KV_seeded(KV_saveRotationState(w, defaultState(t)), t)

\* updateRotationState once the state is loaded as l
KV_updateLoaded(l, currentIndex, lastRotationDate) ==
    IF ~l.ok THEN l
    ELSE KV_saveRotationState(l.w, [l.val EXCEPT !.currentIndex = currentIndex,
                                                 !.lastRotationDate = lastRotationDate])

KV_updateRotationState(w, currentIndex, lastRotationDate, t) ==
    KV_updateLoaded(KV_loadRotationState(w, t), currentIndex, lastRotationDate)

\* getCurrentUser once the state is loaded as l
KV_currentOf(l) ==
    IF ~l.ok THEN l
    ELSE IF Len(l.val.users) = 0 THEN Fail(l.w, "No users in rotation")
    ELSE IF ArrayAt(l.val.users, l.val.currentIndex) = NoUser
    THEN Fail(l.w, "Invalid current index")
    ELSE Ok(l.w, ArrayAt(l.val.users, l.val.currentIndex))

KV_getCurrentUser(w, t) == KV_currentOf(KV_loadRotationState(w, t))

\* advanceToNextUser once the state is loaded as l and the next index is computed
KV_advanceTo(l, nextIndex, t) ==
    IF ArrayAt(l.val.users, nextIndex) = NoUser THEN Fail(l.w, "Invalid next index")
    ELSE Returning(KV_updateRotationState(l.w, nextIndex, toISOString(t), t),
                   ArrayAt(l.val.users, nextIndex))

\* advanceToNextUser once the state is loaded as l
KV_advanceLoaded(l, t) ==
    IF ~l.ok THEN l
    ELSE IF Len(l.val.users) = 0 THEN Fail(l.w, "No users in rotation")
    ELSE KV_advanceTo(l, JsRem(l.val.currentIndex + 1, Len(l.val.users)), t)

KV_advanceToNextUser(w, t) == KV_advanceLoaded(KV_loadRotationState(w, t), t)

KV_getRotationStateForAction(w, t) == KV_loadRotationState(w, t)

\* Math.min(a, b)
Min(a, b) == IF a <= b THEN a ELSE b

\* the index updateUserList keeps for the user who is current now, 0 when there is none
NewCurrentIndex(current, users) ==
    IF current = NoUser \/ FindIndex(users, current.id) < 0 THEN 0
    ELSE FindIndex(users, current.id)

\* updateUserList once the state is loaded as l
KV_updateListLoaded(l, users) ==
    IF ~l.ok THEN l
    ELSE KV_saveRotationState(l.w,
             [l.val EXCEPT !.users = users,
                           !.currentIndex =
                               Min(NewCurrentIndex(ArrayAt(l.val.users, l.val.currentIndex), users),
                                   Len(users) - 1)])

KV_updateUserList(w, users, t) == KV_updateListLoaded(KV_loadRotationState(w, t), users)

----------------------------------------------------------------------------
\* index.ts, KVRemoteStorageService: the KV state read over HTTP from api/rotation-state.ts

\* the response to GET api/rotation-state: 200 with the state, 500 when the KV load throws
KVR_answered(l) ==
    IF l.ok THEN l ELSE Fail(l.w, "Failed to load rotation state from KV API")

KVR_loadRotationState(w, t) == KVR_answered(KV_getRotationStateForAction(w, t))

KVR_updateRotationState(w) == Fail(w, "GitHub Action should not update state")

\* getCurrentUser once the state is loaded as l
KVR_currentOf(l) ==
    IF ~l.ok THEN l ELSE Ok(l.w, ArrayAt(l.val.users, l.val.currentIndex))

KVR_getCurrentUser(w, t) == KVR_currentOf(KVR_loadRotationState(w, t))

----------------------------------------------------------------------------
\* the storageService a RotationService is constructed over

Stores == {"file", "kv", "remote"}

loadRotationState(s, w, t) ==
    CASE s = "file"   -> SS_loadRotationState(w)
      [] s = "kv"     -> KV_loadRotationState(w, t)
      [] s = "remote" -> KVR_loadRotationState(w, t)

updateRotationState(s, w, currentIndex, lastRotationDate, t) ==
    CASE s = "file"   -> SS_updateRotationState(w, currentIndex, lastRotationDate)
      [] s = "kv"     -> KV_updateRotationState(w, currentIndex, lastRotationDate, t)
      [] s = "remote" -> KVR_updateRotationState(w)

getCurrentUser(s, w, t) ==
    CASE s = "file"   -> SS_getCurrentUser(w)
      [] s = "kv"     -> KV_getCurrentUser(w, t)
      [] s = "remote" -> KVR_getCurrentUser(w, t)

----------------------------------------------------------------------------
\* services/RotationService.ts: the rotation engine

getUserAtIndex(w, state, index) ==
    LET found(user) ==
            IF user = NoUser THEN Fail(w, "User not found at index") ELSE Ok(w, user)
    IN  IF Len(state.users) = 0 THEN Fail(w, "No users in rotation")
        ELSE found(ArrayAt(state.users, JsRem(index, Len(state.users))))

shouldAdvanceRotation(state, currentDate) ==
    IF isNewRotationPeriod(state.lastRotationDate, currentDate, state.config)
    THEN TRUE
    ELSE getPeriodsBetween(ParseDate(state.lastRotationDate), currentDate, state.config) > 0

advanceRotation(s, w, state, currentDate, t) ==
    updateRotationState(s, w, JsRem(state.currentIndex + 1, Len(state.users)),
                        toISOString(currentDate), t)

\* the user at the current index of the state loaded as l
UserAtCurrentIndex(l) ==
    IF ~l.ok THEN l ELSE getUserAtIndex(l.w, l.val, l.val.currentIndex)

\* getCurrentForumOwner once the rotation is advanced as a: the state is loaded again
OwnerAfterAdvance(s, a, t) ==
    IF ~a.ok THEN a ELSE UserAtCurrentIndex(loadRotationState(s, a.w, t))

\* getCurrentForumOwner once the state is loaded as l
OwnerOfLoaded(s, l, currentDate, t) ==
    IF ~l.ok THEN l
    ELSE IF shouldAdvanceRotation(l.val, currentDate)
    THEN OwnerAfterAdvance(s, advanceRotation(s, l.w, l.val, currentDate, t), t)
    ELSE getUserAtIndex(l.w, l.val, l.val.currentIndex)

RS_getCurrentForumOwner(s, w, t) ==
    OwnerOfLoaded(s, loadRotationState(s, w, t), getCurrentDateInTimezone(t), t)

\* a variant that checks the period boundary, as getCurrentForumOwner does
ReadOnlyCheckingPeriod(s, w, t) == RS_getCurrentForumOwner(s, w, t)

RS_getCurrentForumOwnerReadOnly(s, w, t) == UserAtCurrentIndex(loadRotationState(s, w, t))

\* previewForumOwner once the state is loaded as l
PreviewOfLoaded(l, targetDate) ==
    IF ~l.ok THEN l
    ELSE getUserAtIndex(l.w, l.val,
             JsRem(getPeriodsBetween(ParseDate(l.val.startDate), targetDate, l.val.config),
                   Len(l.val.users)))

RS_previewForumOwner(s, w, t, targetDate) ==
    PreviewOfLoaded(loadRotationState(s, w, t), targetDate)

\* advanceToNextUser once the rotation is advanced as a
CurrentAfterAdvance(s, a, t) == IF ~a.ok THEN a ELSE getCurrentUser(s, a.w, t)

\* advanceToNextUser once the state is loaded as l
AdvanceLoaded(s, l, currentDate, t) ==
    IF ~l.ok THEN l
    ELSE CurrentAfterAdvance(s, advanceRotation(s, l.w, l.val, currentDate, t), t)

RS_advanceToNextUser(s, w, t) ==
    AdvanceLoaded(s, loadRotationState(s, w, t), getCurrentDateInTimezone(t), t)

\* setCurrentUser once the state is loaded as l and the user is looked up
SetFound(s, l, userIndex, t) ==
    IF userIndex = -1 THEN Fail(l.w, "User not found in rotation")
    ELSE Returning(updateRotationState(s, l.w, userIndex,
                                       toISOString(getCurrentDateInTimezone(t)), t),
                   l.val.users[userIndex + 1])

\* setCurrentUser once the state is loaded as l
SetLoaded(s, l, t, userId) ==
    IF ~l.ok THEN l ELSE SetFound(s, l, FindIndex(l.val.users, userId), t)

RS_setCurrentUser(s, w, t, userId) == SetLoaded(s, loadRotationState(s, w, t), t, userId)

\* date.setMonth(date.getMonth() + k): a day the month lacks runs over into the next
AddMonths(t, k) ==
    LET moved(c, mm) ==
            [day |-> DaysFromCivil(c.y + FloorDiv(mm, 12), Residue(mm, 12) + 1, 1) + (c.d - 1),
             ms  |-> t.ms]
        from(c) == moved(c, (c.m - 1) + k)
    IN  from(CivilFromDays(t.day))

getNextPeriodDate(currentDate, config, periodsAhead) ==
    CASE config.frequency = "daily"     -> AddDays(currentDate, periodsAhead)
      [] config.frequency = "weekly"    -> AddDays(currentDate, periodsAhead * 7)
      [] config.frequency = "bi-weekly" -> AddDays(currentDate, periodsAhead * 14)
      [] config.frequency = "monthly"   -> AddMonths(currentDate, periodsAhead)
      [] config.frequency = "custom"    ->
            AddDays(currentDate, periodsAhead * OrElse(config.interval, 7))
      [] OTHER                          -> currentDate

\* entries i..periodsAhead-1 of the schedule, appended to acc; the first preview that throws ends it
RECURSIVE UpcomingFrom(_, _, _, _, _, _, _, _)
RECURSIVE UpcomingEntry(_, _, _, _, _, _, _, _, _)
UpcomingEntry(s, user, t, state, currentDate, i, periodsAhead, acc, targetDate) ==
    IF ~user.ok THEN user
    ELSE UpcomingFrom(s, user.w, t, state, currentDate, i + 1, periodsAhead,
             Append(acc, [user         |-> user.val,
                          periodInfo   |-> getRotationPeriod(targetDate, state.config),
                          periodNumber |-> i + 1]))

\* entry i, for its target date
UpcomingAt(s, w, t, state, currentDate, i, periodsAhead, acc, targetDate) ==
    UpcomingEntry(s, RS_previewForumOwner(s, w, t, targetDate), t, state, currentDate, i,
                  periodsAhead, acc, targetDate)

UpcomingFrom(s, w, t, state, currentDate, i, periodsAhead, acc) ==
    IF i >= periodsAhead THEN Ok(w, acc)
    ELSE UpcomingAt(s, w, t, state, currentDate, i, periodsAhead, acc,
                    getNextPeriodDate(currentDate, state.config, i))

\* getUpcomingRotation once the state is loaded as l
UpcomingOfLoaded(s, l, t, periodsAhead) ==
    IF ~l.ok THEN l
    ELSE UpcomingFrom(s, l.w, t, l.val, getCurrentDateInTimezone(t), 0, periodsAhead, <<>>)

RS_getUpcomingRotation(s, w, t, periodsAhead) ==
    UpcomingOfLoaded(s, loadRotationState(s, w, t), t, periodsAhead)

\* the statistics of the state loaded as l, periodsSinceStart periods after its start
StatsReport(l, periodsSinceStart) ==
    Ok(l.w, [totalUsers         |-> Len(l.val.users),
             currentUserIndex   |-> l.val.currentIndex,
             periodsSinceStart  |-> periodsSinceStart,
             rotationsCompleted |-> FloorDiv(periodsSinceStart, Len(l.val.users)),
             lastRotationDate   |-> l.val.lastRotationDate,
             rotationFrequency  |-> l.val.config.frequency])

\* getRotationStats once the state is loaded as l
StatsOfLoaded(l, t) ==
    IF ~l.ok THEN l
    ELSE StatsReport(l, getPeriodsBetween(ParseDate(l.val.startDate),
                                          getCurrentDateInTimezone(t), l.val.config))

RS_getRotationStats(s, w, t) == StatsOfLoaded(loadRotationState(s, w, t), t)

\* the errors validateRotation collects over a loaded state, in order;
\* new Date(string) never throws
ValidationErrors(state) ==
    (IF Len(state.users) = 0
     THEN <<"No users configured in rotation">> ELSE <<>>)
    \o (IF ToNumber(state.currentIndex) >= Len(state.users)
        THEN <<"Current index is out of bounds">> ELSE <<>>)
    \o (IF Cardinality({state.users[k].id : k \in 1..Len(state.users)})
               # Len(state.users)
        THEN <<"Duplicate user IDs found in rotation">> ELSE <<>>)

ValidationReport(w, errors) == Ok(w, [valid |-> Len(errors) = 0, errors |-> errors])

\* validateRotation once the load is over as l
ValidateLoaded(l) ==
    ValidationReport(l.w, IF l.ok THEN ValidationErrors(l.val)
                          ELSE <<"Failed to load rotation state">>)

RS_validateRotation(s, w, t) == ValidateLoaded(loadRotationState(s, w, t))

----------------------------------------------------------------------------
\* index.ts: one run of the command line application

RunModes == {"notify", "dry-run", "test", "stats", "preview"}

\* the owner the run announces: read-only over the KV API, advancing over the files
RunCurrentUser(s, w, t) ==
    IF s = "remote" THEN RS_getCurrentForumOwnerReadOnly(s, w, t)
    ELSE RS_getCurrentForumOwner(s, w, t)

\* the notification, once the owner and the state are read
RunSend(currentUser, rotationState, t, dryRun, sendUp) ==
    IF ~rotationState.ok THEN rotationState
    ELSE IF dryRun \/ sendUp
    THEN Ok(rotationState.w,
            [user       |-> currentUser.val,
             periodInfo |-> getRotationPeriod(t, rotationState.val.config)])
    ELSE Fail(rotationState.w, "Failed to send notification")

\* the notification, once the owner is read
RunNotifyUser(s, currentUser, t, dryRun, sendUp) ==
    IF ~currentUser.ok THEN currentUser
    ELSE RunSend(currentUser, loadRotationState(s, currentUser.w, t), t, dryRun, sendUp)

RunNotify(s, w, t, dryRun, sendUp) ==
    RunNotifyUser(s, RunCurrentUser(s, w, t), t, dryRun, sendUp)

\* showStats, once the statistics and the owner are read
RunStatsShown(stats, currentUser) ==
    IF ~currentUser.ok THEN currentUser
    ELSE Ok(currentUser.w, [user |-> currentUser.val, stats |-> stats.val])

\* showStats, once the statistics are read
RunStatsOf(s, stats, t) ==
    IF ~stats.ok THEN stats ELSE RunStatsShown(stats, RunCurrentUser(s, stats.w, t))

RunStats(s, w, t) == RunStatsOf(s, RS_getRotationStats(s, w, t), t)

\* run, once validateRotation has reported
RunValidated(s, rotationValidation, mode, periods, slackUp, sendUp, t) ==
    IF ~rotationValidation.val.valid
    THEN Fail(rotationValidation.w, "Rotation validation failed")
    ELSE IF ~slackUp THEN Fail(rotationValidation.w, "Slack connection failed")
    ELSE CASE mode = "test"    ->
                 IF sendUp THEN Ok(rotationValidation.w, Null)
                 ELSE Fail(rotationValidation.w, "Test message failed")
           [] mode = "stats"   -> RunStats(s, rotationValidation.w, t)
           [] mode = "preview" ->
                 RS_getUpcomingRotation(s, rotationValidation.w, t, periods)
           [] mode = "dry-run" ->
                 RunNotify(s, rotationValidation.w, t, TRUE, sendUp)
           [] mode = "notify"  ->
                 RunNotify(s, rotationValidation.w, t, FALSE, sendUp)

\* the store a run is constructed over
RunStore(useKV) == IF useKV THEN "remote" ELSE "file"

\* RotationNotifierApp(useKV).run(options), the server mode apart
Run(useKV, mode, periods, slackUp, sendUp, w, t) ==
    RunValidated(RunStore(useKV), RS_validateRotation(RunStore(useKV), w, t),
                 mode, periods, slackUp, sendUp, t)

----------------------------------------------------------------------------
\* The state machine: a deployment's stores, the clock, and one action per operation

\* largest roster of a seeded state
MaxUsers == 3
\* longest schedule a run previews
MaxPreview == 3

UserIds == <<"A", "B", "C", "D", "E">>

SeedStartDate == DateOnly(Instant(2024, 1, 1, 0))

SeedLastRotationDates == {DateOnly(Instant(2024, 1, 8, 0))}

SeedConfigs ==
    {Config("daily", Undefined, Undefined),
     Config("weekly", Undefined, Undefined),
     Config("weekly", Undefined, 5),
     Config("custom", 2, Undefined)}

Roster(n) == [k \in 1..n |-> User(UserIds[k], SeedStartDate)]

SeedStates ==
    {RotationState(Roster(n), i, lr, SeedStartDate, c) :
        n \in 1..MaxUsers, i \in 0..(MaxUsers - 1), lr \in SeedLastRotationDates,
        c \in SeedConfigs}

\* the instants at which something runs, in order
ClockTimes ==
    <<Instant(2024, 1, 8, 36000000),
      Instant(2024, 1, 9, 37815250),
      Instant(2024, 1, 15, 0)>>

\* the dates a preview is asked for
PreviewDates == {Instant(2023, 12, 31, 43200000), Instant(2024, 1, 20, 1000)}

\* the identities setCurrentUser is asked for
AskedIds == {UserIds[k] : k \in 1..MaxUsers} \cup {"Z"}

\* the stores a rotation engine is built over: the files, or KV inside the functions;
\* the command line with --use-kv builds it over the remote reader
EngineStores == {"file", "kv"}

Idle == [op |-> "none", store |-> "none", arg |-> Null, pre |-> Null,
         ok |-> TRUE, ret |-> Null]

CalcIdle == [op |-> "none"]

\* no skip handler is running
NoSkips == [from |-> Null, procs |-> <<>>]

\* A deployment keeps its state in the files (no KV connection) or in KV (no users file);
\* the KV entry starts empty or holds a state put there by hand.
Init ==
    /\ \/ \E seed \in SeedStates :
              /\ seed.currentIndex < Len(seed.users)
              /\ \/ usersFile = seed /\ kv = Unavailable
                 \/ usersFile = Null /\ kv = seed
       \/ usersFile = Null /\ kv = Null
    /\ stateFile = Null
    /\ now = ClockTimes[1]
    /\ last = Idle
    /\ calc = CalcIdle
    /\ skips = NoSkips

\* what the handler's first loadRotationState returns
ValueOf(l) == IF l.ok THEN l.val ELSE Null

FirstLoad(s) == ValueOf(loadRotationState(s, World, now))

\* the handler has run: its effect on the stores and what it returned
Done(op, s, arg, result) ==
    \E r \in {result} :
        /\ usersFile' = r.w.usersFile
        /\ stateFile' = r.w.stateFile
        /\ kv' = r.w.kv
        /\ last' = [op |-> op, store |-> s, arg |-> arg, pre |-> FirstLoad(s),
                    ok |-> r.ok, ret |-> r.val]
        /\ UNCHANGED <<now, calc, skips>>

Tick ==
    /\ \E k \in 1..Len(ClockTimes) : Lt(now, ClockTimes[k]) /\ now' = ClockTimes[k]
    /\ last' = Idle
    /\ UNCHANGED <<usersFile, stateFile, kv, calc, skips>>

GetCurrentForumOwner(s) ==
    Done("getCurrentForumOwner", s, Null, RS_getCurrentForumOwner(s, World, now))

GetCurrentForumOwnerReadOnly(s) ==
    Done("getCurrentForumOwnerReadOnly", s, Null,
         RS_getCurrentForumOwnerReadOnly(s, World, now))

PreviewForumOwner(s, targetDate) ==
    Done("previewForumOwner", s, targetDate, RS_previewForumOwner(s, World, now, targetDate))

AdvanceToNextUser(s) ==
    Done("advanceToNextUser", s, Null, RS_advanceToNextUser(s, World, now))

SetCurrentUser(s, userId) ==
    Done("setCurrentUser", s, userId, RS_setCurrentUser(s, World, now, userId))

\* the skip button of api/slack.ts: KVStorageService.advanceToNextUser()
KVAdvanceToNextUser ==
    Done("KV.advanceToNextUser", "kv", Null, KV_advanceToNextUser(World, now))

RunApp(useKV, mode, periods, slackUp, sendUp) ==
    Done("run", IF useKV THEN "remote" ELSE "file",
         [mode |-> mode, periods |-> periods],
         Run(useKV, mode, periods, slackUp, sendUp, World, now))

Next ==
    \/ Tick
    \/ \E s \in EngineStores : GetCurrentForumOwner(s)
    \/ \E s \in Stores : GetCurrentForumOwnerReadOnly(s)
    \/ \E s \in EngineStores, d \in PreviewDates : PreviewForumOwner(s, d)
    \/ \E s \in EngineStores : AdvanceToNextUser(s)
    \/ \E s \in EngineStores, id \in AskedIds : SetCurrentUser(s, id)
    \/ KVAdvanceToNextUser
    \/ \E useKV \in BOOLEAN, mode \in RunModes, slackUp \in BOOLEAN :
          \E periods \in IF mode = "preview" THEN 1..MaxPreview ELSE {MaxPreview},
             sendUp \in IF mode \in {"notify", "test"} /\ slackUp THEN BOOLEAN ELSE {TRUE} :
              RunApp(useKV, mode, periods, slackUp, sendUp)

Spec == Init /\ [][Next]_vars

----------------------------------------------------------------------------
\* The period calculator and the preview on their own: inputs drawn from bounded sets

\* largest interval of a custom config
MaxInterval == 3
\* days taken after each anchor date
CalcSpan == 2

CalcConfigs ==
    {c \in ({Config("daily", Undefined, Undefined), Config("monthly", Undefined, Undefined)}
            \cup {Config("weekly", Undefined, d) : d \in {Undefined} \cup 0..6}
            \cup {Config("bi-weekly", Undefined, d) : d \in {Undefined, 5}}
            \cup {Config("custom", i, Undefined) : i \in 1..MaxInterval}) :
        validateRotationConfig(c)}

\* a 53-week ISO year's end, the week after it, a year's turn on a Monday, days around
\* Sunday 2024-01-07, a leap February's end
CalcAnchors ==
    {Instant(2020, 12, 27, 0), Instant(2021, 1, 3, 0), Instant(2023, 12, 31, 0),
     Instant(2024, 1, 6, 0), Instant(2024, 2, 28, 0)}

CalcTimes == {0, 43200000, MsPerDay - 1}

CalcInstants ==
    {[day |-> AddDays(anchor, k).day, ms |-> ms] :
        anchor \in CalcAnchors, k \in 0..CalcSpan, ms \in CalcTimes}

InitCalc ==
    /\ usersFile = Null /\ stateFile = Null /\ kv = Unavailable
    /\ now = ClockTimes[1]
    /\ last = Idle
    /\ \E config \in CalcConfigs, a \in CalcInstants, b \in CalcInstants :
           calc = [op |-> "input", config |-> config, a |-> a, b |-> b, n |-> 0, out |-> Null]
    /\ skips = NoSkips

Applied(op, n, out) ==
    /\ calc.op = "input"
    /\ calc' = [calc EXCEPT !.op = op, !.n = n, !.out = out]
    /\ UNCHANGED <<usersFile, stateFile, kv, now, last, skips>>

\* getRotationPeriod(a, config)
ApplyGetRotationPeriod ==
    Applied("getRotationPeriod", 0, getRotationPeriod(calc.a, calc.config))

\* getPeriodsBetween(a, b, config)
ApplyGetPeriodsBetween ==
    Applied("getPeriodsBetween", 0, getPeriodsBetween(calc.a, calc.b, calc.config))

\* isNewRotationPeriod(a as stored, b, config)
ApplyIsNewRotationPeriod ==
    Applied("isNewRotationPeriod", 0,
            isNewRotationPeriod(toISOString(calc.a), calc.b, calc.config))

\* the users file of a rotation of n users that started at instant a
CalcWorld(n) ==
    [usersFile |-> RotationState(Roster(n), 0, toISOString(calc.a), toISOString(calc.a),
                                 calc.config),
     stateFile |-> Null,
     kv        |-> Unavailable]

\* previewForumOwner(b) over a rotation of n users that started at a
ApplyPreviewForumOwner(n) ==
    LET outcome(r) == [ok |-> r.ok, val |-> r.val]
    IN  Applied("previewForumOwner", n,
                outcome(RS_previewForumOwner("file", CalcWorld(n), now, calc.b)))

\* what a call hands back, the stores apart
Outcome(r) == [ok |-> r.ok, val |-> r.val]

\* getUpcomingRotation(periods) at instant b, over a rotation of MaxUsers users started at a
ApplyGetUpcomingRotation(periods) ==
    Applied("getUpcomingRotation", periods,
            Outcome(RS_getUpcomingRotation("file", CalcWorld(MaxUsers), calc.b, periods)))

\* the weekStartDay handed to isNewWeek: the configured day, the parameter's default without one
WeekStartAsked ==
    IF calc.config.dayOfWeek = Undefined THEN 1 ELSE calc.config.dayOfWeek

\* isNewWeek(a as stored, b, weekStartDay)
ApplyIsNewWeek ==
    /\ calc.config.frequency = "weekly"
    /\ Applied("isNewWeek", 0, isNewWeek(toISOString(calc.a), calc.b, WeekStartAsked))

NextCalc ==
    \/ ApplyIsNewWeek
    \/ ApplyGetRotationPeriod
    \/ ApplyGetPeriodsBetween
    \/ ApplyIsNewRotationPeriod
    \/ \E n \in 1..MaxUsers : ApplyPreviewForumOwner(n)
    \/ \E periods \in 1..MaxPreview : ApplyGetUpcomingRotation(periods)

SpecCalc == InitCalc /\ [][NextCalc]_vars

----------------------------------------------------------------------------
\* validateRotation over whatever a store holds, states edited by hand included

\* a date string that no Date parses: new Date(s) is an Invalid Date, nothing is thrown
NotADate == [text |-> "not a date"]

StoredRosters ==
    {<<>>, Roster(1), Roster(2), <<User(UserIds[1], SeedStartDate), User(UserIds[1], SeedStartDate)>>}

StoredIndexes == -1..2

StoredDates == {SeedStartDate, NotADate}

StoredConfigs ==
    {Config("weekly", Undefined, Undefined),
     Config("custom", 2, Undefined),
     Config("custom", Undefined, Undefined),
     Config("weekly", Undefined, 7),
     [Config("monthly", Undefined, Undefined) EXCEPT !.dayOfMonth = 32]}

StoredStates ==
    {RotationState(users, i, lr, sd, c) :
        users \in StoredRosters, i \in StoredIndexes, lr \in StoredDates,
        sd \in StoredDates, c \in StoredConfigs}

InitStored ==
    /\ \E state \in StoredStates :
           \/ usersFile = state /\ kv = Unavailable
           \/ usersFile = Null /\ kv = state
    /\ stateFile = Null
    /\ now = ClockTimes[1]
    /\ last = Idle
    /\ calc = CalcIdle
    /\ skips = NoSkips

ValidateRotation(s) ==
    Done("validateRotation", s, Null, RS_validateRotation(s, World, now))

NextStored == \E s \in Stores : ValidateRotation(s)

SpecStored == InitStored /\ [][NextStored]_vars

----------------------------------------------------------------------------
\* The roster under edit: the engine's operations and the stores' roster operations

\* the lists updateUserList is given
AskedLists ==
    {<<>>, Roster(1), <<User(UserIds[2], SeedStartDate), User(UserIds[1], SeedStartDate)>>,
     <<User(UserIds[1], SeedStartDate), User(UserIds[1], SeedStartDate)>>}

AddUser(userId) ==
    Done("addUser", "file", userId, SS_addUser(World, User(userId, DateOnly(now))))

RemoveUser(userId) ==
    Done("removeUser", "file", userId, SS_removeUser(World, userId))

UpdateUserList(users) ==
    Done("updateUserList", "kv", users, KV_updateUserList(World, users, now))

NextRoster ==
    \/ Tick
    \/ \E s \in EngineStores : GetCurrentForumOwner(s)
    \/ \E s \in EngineStores : AdvanceToNextUser(s)
    \/ \E s \in EngineStores, id \in AskedIds : SetCurrentUser(s, id)
    \/ KVAdvanceToNextUser
    \/ \E id \in AskedIds : AddUser(id)
    \/ \E id \in AskedIds : RemoveUser(id)
    \/ \E users \in AskedLists : UpdateUserList(users)

SpecRoster == Init /\ [][NextRoster]_vars

----------------------------------------------------------------------------
\* Two skip requests handled at once: every access to the store is a step of its own

\* the two handlers
Skippers == {1, 2}

\* what answers a skip: KVStorageService.advanceToNextUser (api/slack.ts) or
\* RotationService.advanceToNextUser over the engine's store (SlackInteractionHandler)
SkipHandlers == {"KV", "engine"}

\* a variant that leaves the pointer where it is
NextIndexStale(state) == state.currentIndex

\* (currentIndex + 1) % users.length
NextIndex(state) == JsRem(state.currentIndex + 1, Len(state.users))

\* a handler about to start
Starting(handler, s) ==
    [handler |-> handler, store |-> s, pc |-> "load", next |-> 0, l |-> Null, ret |-> Null]

InitSkips ==
    /\ stateFile = Null
    /\ now = ClockTimes[2]
    /\ last = Idle
    /\ calc = CalcIdle
    /\ \E seed \in SeedStates :
           /\ seed.currentIndex < Len(seed.users)
           /\ \/ /\ usersFile = seed /\ kv = Unavailable
                 /\ skips = [from |-> seed, procs |-> [p \in Skippers |-> Starting("engine", "file")]]
              \/ /\ usersFile = Null /\ kv = seed
                 /\ \E hs \in [Skippers -> SkipHandlers] :
                        skips = [from |-> seed, procs |-> [p \in Skippers |-> Starting(hs[p], "kv")]]

\* handler p moves on: the store it leaves, its position, and what it holds
Moved(p, w, proc) ==
    /\ usersFile' = w.usersFile
    /\ stateFile' = w.stateFile
    /\ kv' = w.kv
    /\ skips' = [skips EXCEPT !.procs[p] = proc]
    /\ UNCHANGED <<now, last, calc>>

\* the handler once its first load is over as l
AfterLoad(proc, l) ==
    IF ~l.ok THEN [proc EXCEPT !.pc = "failed"]
    ELSE IF proc.handler = "KV"
              /\ (Len(l.val.users) = 0 \/ ArrayAt(l.val.users, NextIndex(l.val)) = NoUser)
    THEN [proc EXCEPT !.pc = "failed"]
    ELSE [proc EXCEPT !.pc = "reload", !.next = NextIndex(l.val), !.l = l.val,
                      !.ret = ArrayAt(l.val.users, NextIndex(l.val))]

\* the handler's first loadRotationState
SkipLoad(p, l) ==
    /\ skips.procs[p].pc = "load"
    /\ Moved(p, l.w, AfterLoad(skips.procs[p], l))

\* the loadRotationState inside updateRotationState
SkipReload(p, l) ==
    /\ skips.procs[p].pc = "reload"
    /\ Moved(p, l.w, IF l.ok THEN [skips.procs[p] EXCEPT !.pc = "save", !.l = l.val]
                     ELSE [skips.procs[p] EXCEPT !.pc = "failed"])

\* the lastRotationDate a handler writes
SkipDate(handler, t) ==
    IF handler = "KV" THEN toISOString(t) ELSE toISOString(getCurrentDateInTimezone(t))

\* saveRotationState of the store s
saveRotationState(s, w, state) ==
    IF s = "file" THEN SS_saveRotationState(w, state) ELSE KV_saveRotationState(w, state)

\* the saveRotationState inside updateRotationState, over as sv
SkipSave(p, sv) ==
    /\ skips.procs[p].pc = "save"
    /\ Moved(p, sv.w,
             IF ~sv.ok THEN [skips.procs[p] EXCEPT !.pc = "failed"]
             ELSE [skips.procs[p] EXCEPT
                      !.pc = IF skips.procs[p].handler = "KV" THEN "done" ELSE "current"])

\* the engine's closing getCurrentUser, over as c
SkipCurrent(p, c) ==
    /\ skips.procs[p].pc = "current"
    /\ Moved(p, c.w, IF c.ok THEN [skips.procs[p] EXCEPT !.pc = "done", !.ret = c.val]
                     ELSE [skips.procs[p] EXCEPT !.pc = "failed"])

NextSkips ==
    \E p \in Skippers :
        \/ SkipLoad(p, loadRotationState(skips.procs[p].store, World, now))
        \/ SkipReload(p, loadRotationState(skips.procs[p].store, World, now))
        \/ SkipSave(p, saveRotationState(skips.procs[p].store, World,
                           [skips.procs[p].l EXCEPT
                               !.currentIndex = skips.procs[p].next,
                               !.lastRotationDate = SkipDate(skips.procs[p].handler, now)]))
        \/ SkipCurrent(p, getCurrentUser(skips.procs[p].store, World, now))

SpecSkips == InitSkips /\ [][NextSkips]_vars

----------------------------------------------------------------------------
\* The scheduled notification: one run of the application in each successive period

\* most runs of a schedule
MaxRuns == 3

\* the days from one scheduled run to the next
ScheduleSteps == {1, 2, 7}

\* the config of the rotation the run's store holds
ScheduledConfig(s) ==
    IF FirstLoad(s) = Null THEN getDefaultRotationConfig ELSE FirstLoad(s).config

\* t lies in the period that follows the period of now
InNextPeriod(s, t) ==
    getRotationPeriod(t, ScheduledConfig(s)).startDate =
        Succ(getRotationPeriod(now, ScheduledConfig(s)).endDate)

\* the run is over: what it announced, after what the run before it announced
Announced(s, t, result) ==
    \E r \in {result} :
        /\ usersFile' = r.w.usersFile
        /\ stateFile' = r.w.stateFile
        /\ kv' = r.w.kv
        /\ now' = t
        /\ last' = [op |-> "scheduledRun", store |-> s,
                    arg |-> [runs     |-> IF last = Idle THEN 1 ELSE last.arg.runs + 1,
                             previous |-> IF last = Idle \/ ~last.ok THEN Null ELSE last.ret],
                    pre |-> FirstLoad(s), ok |-> r.ok, ret |-> r.val]
        /\ UNCHANGED <<calc, skips>>

\* the first run of the schedule
FirstRun(useKV) ==
    /\ last = Idle
    /\ Announced(RunStore(useKV), now,
                 Run(useKV, "notify", MaxPreview, TRUE, TRUE, World, now))

\* the run of the next period, days later
NextRun(days) ==
    /\ last # Idle
    /\ last.arg.runs < MaxRuns
    /\ InNextPeriod(last.store, AddDays(now, days))
    /\ Announced(last.store, AddDays(now, days),
                 Run(last.store = "remote", "notify", MaxPreview, TRUE, TRUE, World,
                     AddDays(now, days)))

NextSchedule ==
    \/ \E useKV \in BOOLEAN : FirstRun(useKV)
    \/ \E days \in ScheduleSteps : NextRun(days)

SpecSchedule == Init /\ [][NextSchedule]_vars

----------------------------------------------------------------------------
\* api/slack.ts: the endpoint Slack posts interactions to

\* Math.floor(new Date().getTime() / 1000)
TimeSeconds(t) == t.day * (MsPerDay \div MsPerSecond) + (t.ms \div MsPerSecond)

\* 'v0=' + HMAC-SHA256(key, 'v0:' + timestamp + ':' + body) in hex: one string for
\* each key and message, all of one length
Hmac(key, timestamp, body) == [v0 |-> <<key, timestamp, body>>]

\* a signature header that is no such string: its length is another
Garbled == [text |-> "v0=00"]

\* SLACK_SIGNING_SECRET, and a key that is not it
SigningSecret == "secret"
GuessedSecret == "guess"

\* verifySlackSignature: "false", "true", or "throws" (timingSafeEqual on unequal lengths)
verifySlackSignature(body, signature, timestamp, signingSecret, t) ==
    IF TimeSeconds(t) - timestamp > 300 \/ timestamp - TimeSeconds(t) > 300 THEN "false"
    ELSE IF signature = Garbled THEN "throws"
    ELSE IF signature = Hmac(signingSecret, timestamp, body) THEN "true"
    ELSE "false"

Respond(w, status, text) == Ok(w, [status |-> status, text |-> text])

\* skip_rotation once the KV store's advanceToNextUser is over as a:
\* the state is loaded again and Slack is told
SkipAdvanced(a, t, slackUp) ==
    IF ~a.ok \/ ~KV_loadRotationState(a.w, t).ok \/ ~slackUp
    THEN Respond(a.w, 200, "Error occurred")
    ELSE Respond(KV_loadRotationState(a.w, t).w, 200, "Rotation updated and saved!")

\* show_schedule once the schedule of the next 4 periods is computed as schedule
ScheduleShown(schedule, slackUp) ==
    IF ~schedule.ok \/ ~slackUp THEN Respond(schedule.w, 200, "Error occurred")
    ELSE Respond(schedule.w, 200, "Schedule displayed!")

\* the handler once the signature check let the request through
HandlePayload(w, t, payload, slackUp) ==
    CASE payload.type = "url_verification" -> Respond(w, 200, "challenge")
      [] payload.type = "block_actions" /\ payload.action = "skip_rotation" ->
             SkipAdvanced(KV_advanceToNextUser(w, t), t, slackUp)
      [] payload.type = "block_actions" /\ payload.action = "show_schedule" ->
             ScheduleShown(RS_getUpcomingRotation("kv", w, t, 4), slackUp)
      [] payload.type = "block_actions" -> Respond(w, 200, "Unknown action")
      [] OTHER -> Respond(w, 200, "OK")

\* the handler once the signature is judged
HandleVerified(w, t, req, isValid, slackUp) ==
    CASE isValid = "throws" -> Respond(w, 500, "Internal server error")
      [] isValid = "false"  -> Respond(w, 401, "Invalid signature")
      [] OTHER              -> HandlePayload(w, t, req.payload, slackUp)

\* POST api/slack; an absent header is <<>>, a present one <<value>>
SlackHandler(w, t, req, slackUp) ==
    IF req.signature # <<>> /\ req.timestamp # <<>>
    THEN HandleVerified(w, t, req,
             verifySlackSignature(req.payload, req.signature[1], req.timestamp[1],
                                  SigningSecret, t),
             slackUp)
    ELSE HandlePayload(w, t, req.payload, slackUp)

\* the interactions posted
Payloads ==
    {[type |-> "url_verification", action |-> "none"],
     [type |-> "block_actions", action |-> "skip_rotation"],
     [type |-> "block_actions", action |-> "show_schedule"],
     [type |-> "block_actions", action |-> "other"]}

\* the request's age when it arrives, in seconds
RequestAges == {0, 300, 301}

\* who signed the request, if anyone
Signers == {"nobody", "garbled", SigningSecret, GuessedSecret}

\* the signature header of a request signed by signer at the instant sent
SignatureBy(signer, sent, payload) ==
    CASE signer = "nobody"  -> <<>>
      [] signer = "garbled" -> <<Garbled>>
      [] OTHER              -> <<Hmac(signer, sent, payload)>>

\* the requests that reach the endpoint at t, Slack's own and anyone else's,
\* with or without the timestamp header
Requests(t) ==
    {[payload   |-> payload,
      signature |-> SignatureBy(signer, TimeSeconds(t) - age, payload),
      timestamp |-> IF stamped THEN <<TimeSeconds(t) - age>> ELSE <<>>] :
        payload \in Payloads, age \in RequestAges, signer \in Signers, stamped \in BOOLEAN}

SlackPost(req, slackUp) ==
    Done("POST api/slack", "kv", req, SlackHandler(World, now, req, slackUp))

NextSlack == \E req \in Requests(now), slackUp \in BOOLEAN : SlackPost(req, slackUp)

SpecSlack == Init /\ [][NextSlack]_vars

----------------------------------------------------------------------------
\* The KV store's load beside other calls: kv.get and kv.set are steps of their own

\* the callers
Callers == {1, 2}

\* what a caller calls on the KV store
KVCalls == {"loadRotationState", "advanceToNextUser"}

\* a caller about to start: its call, the loadRotationState it is in (the call's own is 1,
\* the one inside updateRotationState 2), where it is, the index it computed, the state
\* its last load returned
Calling(call) == [call |-> call, load |-> 1, pc |-> "get", next |-> 0, l |-> Null]

InitSeeding ==
    /\ usersFile = Null
    /\ stateFile = Null
    /\ now = ClockTimes[2]
    /\ last = Idle
    /\ calc = CalcIdle
    /\ \/ kv = Null
       \/ \E seed \in SeedStates : seed.currentIndex < Len(seed.users) /\ kv = seed
    /\ \E calls \in [Callers -> KVCalls] :
           skips = [from |-> kv, procs |-> [p \in Callers |-> Calling(calls[p])]]

\* caller p moves on: what the KV entry holds now, and the caller's new position
Called(p, entry, proc) ==
    /\ kv' = entry
    /\ skips' = [skips EXCEPT !.procs[p] = proc]
    /\ UNCHANGED <<usersFile, stateFile, now, last, calc>>

\* the caller once its loadRotationState has returned state
Loaded(proc, state) ==
    IF proc.call = "loadRotationState" THEN [proc EXCEPT !.pc = "done", !.l = state]
    ELSE IF proc.load = 2 THEN [proc EXCEPT !.pc = "set", !.l = state]
    ELSE IF Len(state.users) = 0 \/ ArrayAt(state.users, NextIndex(state)) = NoUser
    THEN [proc EXCEPT !.pc = "failed", !.l = state]
    ELSE [proc EXCEPT !.load = 2, !.pc = "get", !.next = NextIndex(state), !.l = state]

\* kv.get of loadRotationState: a stored state is returned, none sends the caller to seed
CallGet(p) ==
    /\ skips.procs[p].pc = "get"
    /\ Called(p, kv, IF kv = Null THEN [skips.procs[p] EXCEPT !.pc = "seed"]
                     ELSE Loaded(skips.procs[p], kv))

\* saveRotationState(defaultState) of loadRotationState, which then returns the default
CallSeed(p) ==
    /\ skips.procs[p].pc = "seed"
    /\ Called(p, KV_saveRotationState(World, defaultState(now)).w.kv,
              Loaded(skips.procs[p], defaultState(now)))

\* saveRotationState of updateRotationState, over the state its load returned
CallSet(p) ==
    /\ skips.procs[p].pc = "set"
    /\ Called(p, KV_saveRotationState(World,
                     [skips.procs[p].l EXCEPT !.currentIndex = skips.procs[p].next,
                                !.lastRotationDate = toISOString(now)]).w.kv,
              [skips.procs[p] EXCEPT !.pc = "done"])

NextSeeding == \E p \in Callers : CallGet(p) \/ CallSeed(p) \/ CallSet(p)

SpecSeeding == InitSeeding /\ [][NextSeeding]_vars

----------------------------------------------------------------------------
\* A skip and the owner queries after it, remembered across the clock

\* the instants at which something runs: two in one day, then the next two days
SkipClock ==
    <<Instant(2024, 1, 8, 36000000),
      Instant(2024, 1, 8, 79200500),
      Instant(2024, 1, 9, 37815250),
      Instant(2024, 1, 10, 32400000)>>

\* the skip has run: as Done, and the skip is remembered
Skipped(op, s, result) ==
    \E r \in {result} :
        /\ usersFile' = r.w.usersFile
        /\ stateFile' = r.w.stateFile
        /\ kv' = r.w.kv
        /\ last' = [op |-> op, store |-> s, arg |-> Null, pre |-> FirstLoad(s),
                    ok |-> r.ok, ret |-> r.val]
        /\ skips' = [from |-> [at |-> now, store |-> s, ok |-> r.ok, owner |-> r.val],
                     procs |-> <<>>]
        /\ UNCHANGED <<now, calc>>

\* the skip through the engine
SkipThroughEngine(s) == Skipped("advanceToNextUser", s, RS_advanceToNextUser(s, World, now))

\* the skip button of api/slack.ts
SkipThroughKV == Skipped("KV.advanceToNextUser", "kv", KV_advanceToNextUser(World, now))

\* time passes
Later ==
    /\ \E k \in 1..Len(SkipClock) : Lt(now, SkipClock[k]) /\ now' = SkipClock[k]
    /\ last' = Idle
    /\ UNCHANGED <<usersFile, stateFile, kv, calc, skips>>

NextClock ==
    \/ Later
    \/ \E s \in EngineStores : SkipThroughEngine(s)
    \/ SkipThroughKV
    \/ \E s \in EngineStores : GetCurrentForumOwner(s)

SpecClock == Init /\ [][NextClock]_vars

----------------------------------------------------------------------------
\* Two owner queries at once: getCurrentForumOwner called twice over one store, their
\* loads and saves interleaved

\* a getCurrentForumOwner call about to load the state
Asking(s) ==
    [store |-> s, pc |-> "load", next |-> 0, l |-> Null, ret |-> Null, advanced |-> FALSE]

InitOwners ==
    /\ stateFile = Null
    /\ now \in {ClockTimes[2], ClockTimes[3]}
    /\ last = Idle
    /\ calc = CalcIdle
    /\ \E seed \in SeedStates :
           /\ seed.currentIndex < Len(seed.users)
           /\ \/ /\ usersFile = seed /\ kv = Unavailable
                 /\ skips = [from |-> seed, procs |-> [p \in Skippers |-> Asking("file")]]
              \/ /\ usersFile = Null /\ kv = seed
                 /\ skips = [from |-> seed, procs |-> [p \in Skippers |-> Asking("kv")]]

\* the call once the user at the pointer is looked up as u
Answered(proc, u) ==
    IF u.ok THEN [proc EXCEPT !.pc = "done", !.ret = u.val] ELSE [proc EXCEPT !.pc = "failed"]

\* the call once its first load is over as l: advanceRotation takes the new index from it
AfterFirstLoad(proc, l, currentDate) ==
    IF ~l.ok THEN [proc EXCEPT !.pc = "failed"]
    ELSE IF shouldAdvanceRotation(l.val, currentDate)
    THEN [proc EXCEPT !.pc = "reload", !.next = NextIndex(l.val)]
    ELSE Answered(proc, getUserAtIndex(l.w, l.val, l.val.currentIndex))

\* the call's first loadRotationState
OwnerLoad(p, l) ==
    /\ skips.procs[p].pc = "load"
    /\ Moved(p, l.w, AfterFirstLoad(skips.procs[p], l, getCurrentDateInTimezone(now)))

\* the loadRotationState inside updateRotationState
OwnerReload(p, l) ==
    /\ skips.procs[p].pc = "reload"
    /\ Moved(p, l.w, IF l.ok THEN [skips.procs[p] EXCEPT !.pc = "save", !.l = l.val]
                     ELSE [skips.procs[p] EXCEPT !.pc = "failed"])

\* a variant that takes the new index from the state updateRotationState loads
AdvancedFromReload(proc, t) ==
    [proc.l EXCEPT !.currentIndex = NextIndex(proc.l),
                   !.lastRotationDate = toISOString(getCurrentDateInTimezone(t))]

\* the state updateRotationState saves: the one it loaded, with the new index and date
AdvancedState(proc, t) ==
    [proc.l EXCEPT !.currentIndex = proc.next,
                   !.lastRotationDate = toISOString(getCurrentDateInTimezone(t))]

\* the saveRotationState inside updateRotationState, over as sv
OwnerSave(p, sv) ==
    /\ skips.procs[p].pc = "save"
    /\ Moved(p, sv.w, IF sv.ok THEN [skips.procs[p] EXCEPT !.pc = "owner", !.advanced = TRUE]
                      ELSE [skips.procs[p] EXCEPT !.pc = "failed"])

\* the load after the advance, and the user at its pointer
OwnerReturn(p, l) ==
    /\ skips.procs[p].pc = "owner"
    /\ Moved(p, l.w, Answered(skips.procs[p], UserAtCurrentIndex(l)))

NextOwners ==
    \E p \in Skippers :
        \/ OwnerLoad(p, loadRotationState(skips.procs[p].store, World, now))
        \/ OwnerReload(p, loadRotationState(skips.procs[p].store, World, now))
        \/ OwnerSave(p, saveRotationState(skips.procs[p].store, World,
                            AdvancedState(skips.procs[p], now)))
        \/ OwnerReturn(p, loadRotationState(skips.procs[p].store, World, now))

SpecOwners == InitOwners /\ [][NextOwners]_vars

----------------------------------------------------------------------------
\* Properties of the engine's operations

\* what a load through the store of the last operation returns now
Reloaded == loadRotationState(last.store, World, now)

\* the last operation ran over a persisted state whose pointer is in range
OverPersisted ==
    /\ last.pre # Null
    /\ Len(last.pre.users) >= 1
    /\ last.pre.currentIndex \in 0..(Len(last.pre.users) - 1)

\* C1: advanceToNext (the engine's over its store, or the KV store's own) returns
\* roster[(i+1) mod n], and a load after the call observes currentIndex = (i+1) mod n.
C1_AdvanceIsSuccessor ==
    (last.op \in {"advanceToNextUser", "KV.advanceToNextUser"} /\ OverPersisted) =>
        LET n == Len(last.pre.users)
            i == last.pre.currentIndex
        IN  /\ last.ok
            /\ last.ret = last.pre.users[((i + 1) % n) + 1]
            /\ Reloaded.ok
            /\ Reloaded.val.currentIndex = (i + 1) % n

\* C1 over the KV store alone
C1_AdvanceIsSuccessorKV ==
    last.store = "kv" => C1_AdvanceIsSuccessor

\* C2: currentOwner at instant now advances the pointer to its successor, stamps
\* lastRotationInstant with now and returns the entry at the newly persisted pointer when
\* a new period has begun; otherwise it returns roster[currentIndex] and leaves the
\* persisted state unchanged.
C2_CurrentOwner ==
    (last.op = "getCurrentForumOwner" /\ OverPersisted) =>
        LET n           == Len(last.pre.users)
            i           == last.pre.currentIndex
            currentDate == getCurrentDateInTimezone(now)
        IN  IF isNewRotationPeriod(last.pre.lastRotationDate, currentDate, last.pre.config)
            THEN /\ last.ok
                 /\ Reloaded.ok
                 /\ Reloaded.val.currentIndex = (i + 1) % n
                 /\ ParseDate(Reloaded.val.lastRotationDate) = currentDate
                 /\ last.ret = Reloaded.val.users[Reloaded.val.currentIndex + 1]
            ELSE /\ last.ok
                 /\ last.ret = last.pre.users[i + 1]
                 /\ Reloaded.ok
                 /\ Reloaded.val = last.pre

\* C2 over the KV store alone
C2_CurrentOwnerKV ==
    last.store = "kv" => C2_CurrentOwner

\* the step is a read-only owner query or a command-line run in --use-kv mode
ReadOnlyStep ==
    \/ last' # last /\ last'.op = "getCurrentForumOwnerReadOnly"
    \/ last' # last /\ last'.op = "run" /\ last'.store = "remote"

\* a read-only owner query that succeeds returns roster[currentIndex]
ReturnsCurrent ==
    (last'.op = "getCurrentForumOwnerReadOnly" /\ last'.ok) =>
        last'.ret = last'.pre.users[last'.pre.currentIndex + 1]

C4_SetOwner ==
    (last.op = "setCurrentUser" /\ OverPersisted) =>
        LET found == {k \in 1..Len(last.pre.users) : last.pre.users[k].id = last.arg}
        IN  IF found # {}
            THEN LET k == CHOOSE j \in found : \A h \in found : j <= h
                 IN  /\ last.ok
                     /\ last.ret = last.pre.users[k]
                     /\ Reloaded.ok
                     /\ Reloaded.val.currentIndex = k - 1
                     /\ ParseDate(Reloaded.val.lastRotationDate) =
                            getCurrentDateInTimezone(now)
            ELSE /\ ~last.ok
                 /\ last.ret = [error |-> "User not found in rotation"]
                 /\ Reloaded.ok
                 /\ Reloaded.val = last.pre

\* C4 over the KV store alone
C4_SetOwnerKV ==
    last.store = "kv" => C4_SetOwner

----------------------------------------------------------------------------
\* Properties of the period calculator and of the preview

\* largest multiple of the roster length a date is shifted by
MaxShift == 1

\* C5: ownerOnDate(targetDate) returns roster[index], index being
\* periodsBetween(rotationStartInstant, targetDate, config) reduced modulo the roster
\* length into [0, len), also for dates before the rotation started; it never fails for a
\* non-empty roster.
C5_OwnerOnDate ==
    calc.op = "previewForumOwner" =>
        LET periods == getPeriodsBetween(calc.a, calc.b, calc.config)
            index   == Residue(periods, calc.n)
        IN  calc.out.ok /\ calc.out.val = Roster(calc.n)[index + 1]

\* C5 for target dates that are no periods before the start
C5_OwnerOnDateFromStart ==
    getPeriodsBetween(calc.a, calc.b, calc.config) >= 0 => C5_OwnerOnDate

\* C6: for every valid config and every instant, the period periodFor returns contains
\* the instant: startInstant <= date <= endInstant.
C6_PeriodContainsDate ==
    calc.op = "getRotationPeriod" =>
        Leq(calc.out.startDate, calc.a) /\ Leq(calc.a, calc.out.endDate)

\* an instant before the epoch, strictly inside its three-day custom period
C6_Witness ==
    /\ calc.op = "getRotationPeriod"
    /\ calc.config.frequency = "custom" /\ calc.config.interval = 3
    /\ Lt(calc.a, EpochStart)
    /\ calc.out.startDate.day < calc.a.day /\ calc.a.day < calc.out.endDate.day
    /\ calc.out.periodNumber < 0

RECURSIVE WindowsForward(_, _, _)
\* the windows of periodFor to step through, from the one containing x, to reach the one
\* containing b (x <= b): each step enters the window that begins where the last one ended
\* (a stretch of more than two months is counted as its two halves)
WindowsForward(x, b, config) ==
    LET period == getRotationPeriod(x, config)
        middle == [day |-> x.day + ((b.day - x.day) \div 2), ms |-> 0]
    IN  IF Leq(b, period.endDate) THEN 0
        ELSE IF b.day - x.day > 64
        THEN WindowsForward(x, middle, config) + WindowsForward(middle, b, config)
        ELSE 1 + WindowsForward(Succ(period.endDate), b, config)

\* signed: forward when a <= b, backward otherwise
WindowSteps(a, b, config) ==
    IF Leq(a, b) THEN WindowsForward(a, b, config) ELSE -WindowsForward(b, a, config)

\* C7 as stated: for every pair of instants and every frequency, periodsBetween is the
\* number of periodFor windows stepped from the one containing start to the one
\* containing end.
C7_PeriodsBetweenCountsWindows ==
    calc.op = "getPeriodsBetween" => calc.out = WindowSteps(calc.a, calc.b, calc.config)

\* the week-numbering year of an instant under the week start the calculator uses
WeekYear(t, config) == WeekOf(t, OrElse(config.dayOfWeek, 1)).year

\* C7 where it holds, and what periodsBetween is elsewhere: the signed number of periodFor
\* windows stepped for Monthly configs, for Weekly configs whose weeks do not start on
\* Monday, and for Monday-week configs when start and end lie in the same ISO
\* week-numbering year or end lies in the year after start's. For Daily it is that number
\* when end's time of day is not before start's and one less otherwise; for BiWeekly it is
\* the floor of half the Weekly count; for Custom it is the floor of the Daily count over
\* the interval.
C7_WhatPeriodsBetweenCounts ==
    calc.op = "getPeriodsBetween" =>
        LET f     == calc.config.frequency
            steps == WindowSteps(calc.a, calc.b, calc.config)
            ya    == WeekYear(calc.a, calc.config)
            yb    == WeekYear(calc.b, calc.config)
        IN  CASE f = "monthly"   -> calc.out = steps
              [] f = "weekly"    ->
                    (OrElse(calc.config.dayOfWeek, 1) # 1 \/ yb = ya \/ yb = ya + 1) =>
                        calc.out = steps
              [] f = "daily"     ->
                    calc.out = steps - (IF calc.b.ms < calc.a.ms THEN 1 ELSE 0)
              [] f = "bi-weekly" ->
                    calc.out = FloorDiv(getPeriodsBetween(calc.a, calc.b,
                                   [calc.config EXCEPT !.frequency = "weekly"]), 2)
              [] f = "custom"    ->
                    calc.out = FloorDiv(getPeriodsBetween(calc.a, calc.b,
                                   [calc.config EXCEPT !.frequency = "daily"]),
                                        calc.config.interval)

\* C8: for Daily, Monthly and Custom configs and instants with any time of day,
\* periodsBetween(a, b, config) = -periodsBetween(b, a, config).
C8_Antisymmetric ==
    (calc.op = "getPeriodsBetween"
        /\ calc.config.frequency \in {"daily", "monthly", "custom"}) =>
            calc.out = -getPeriodsBetween(calc.b, calc.a, calc.config)

\* C8 for Monthly configs alone
C8_AntisymmetricMonthly ==
    calc.config.frequency = "monthly" => C8_Antisymmetric

\* the day a week containing t begins on, the weeks beginning on weekday weekStartDay
WeekStartOf(t, weekStartDay) == t.day - ((getUTCDay(t) - weekStartDay + 7) % 7)

\* the week start a config asks for: Monday when it names none
ConfiguredWeekStart(config) ==
    IF config.dayOfWeek = Undefined THEN 1 ELSE config.dayOfWeek

\* C9: isNewPeriod(last, now, config) is periodsBetween(last, now, config) > 0, and for a
\* Weekly config it is true exactly when now lies in a later week, by the configured week
\* start, than last.
C9_IsNewPeriod ==
    calc.op = "isNewRotationPeriod" =>
        /\ calc.out = (getPeriodsBetween(calc.a, calc.b, calc.config) > 0)
        /\ calc.config.frequency = "weekly" =>
               LET weekStartDay == ConfiguredWeekStart(calc.config)
               IN  calc.out =
                       (WeekStartOf(calc.b, weekStartDay) > WeekStartOf(calc.a, weekStartDay))

\* C9 for configs that do not ask for Sunday weeks
C9_IsNewPeriodNotSunday ==
    calc.config.dayOfWeek # 0 => C9_IsNewPeriod

\* the instant k periods of the config after t (before, when k < 0)
ShiftPeriods(t, k, config) ==
    CASE config.frequency = "daily"     -> AddDays(t, k)
      [] config.frequency = "weekly"    -> AddDays(t, k * DaysPerWeek)
      [] config.frequency = "bi-weekly" -> AddDays(t, k * 2 * DaysPerWeek)
      [] config.frequency = "monthly"   -> AddMonths(t, k)
      [] config.frequency = "custom"    -> AddDays(t, k * config.interval)

\* C10: ownerOnDate(d) = ownerOnDate(d + k*len*periodLength) for every date d and
\* integer k (a month's length taken on days every month has).
C10_Periodic ==
    (calc.op = "previewForumOwner"
        /\ (calc.config.frequency = "monthly" => getUTCDate(calc.b) <= 28)) =>
            \A k \in (-MaxShift)..MaxShift :
                LET shifted == ShiftPeriods(calc.b, k * calc.n, calc.config)
                    r       == RS_previewForumOwner("file", CalcWorld(calc.n), now, shifted)
                IN  [ok |-> r.ok, val |-> r.val] = calc.out

\* C10 for dates that stay no periods before the start
C10_PeriodicFromStart ==
    (\A k \in (-MaxShift)..MaxShift :
        getPeriodsBetween(calc.a, ShiftPeriods(calc.b, k * calc.n, calc.config),
                          calc.config) >= 0)
        => C10_Periodic

----------------------------------------------------------------------------
\* Properties of the schedule

\* a schedule was asked for at an instant no periods before the rotation's start
ScheduleFromStart ==
    /\ calc.op = "getUpcomingRotation"
    /\ getPeriodsBetween(calc.a, getCurrentDateInTimezone(calc.b), calc.config) >= 0

\* C11: upcomingSchedule(N) returns N entries numbered 1..N; the first describes the
\* period containing now and each next one the period that begins where the one before
\* it ended: no period is skipped and none repeated.
C11_UpcomingSchedule ==
    ScheduleFromStart =>
        /\ calc.out.ok
        /\ Len(calc.out.val) = calc.n
        /\ \A i \in 1..calc.n : calc.out.val[i].periodNumber = i
        /\ Leq(calc.out.val[1].periodInfo.startDate, getCurrentDateInTimezone(calc.b))
        /\ Leq(getCurrentDateInTimezone(calc.b), calc.out.val[1].periodInfo.endDate)
        /\ \A i \in 1..(calc.n - 1) :
               calc.out.val[i + 1].periodInfo.startDate =
                   Succ(calc.out.val[i].periodInfo.endDate)

\* C11 for schedules that are not Monthly ones asked for after the 28th of a month
C11_UpcomingScheduleNotMonthEnd ==
    (calc.config.frequency = "monthly" => getUTCDate(calc.b) <= 28) => C11_UpcomingSchedule

----------------------------------------------------------------------------
\* Properties of validateRotation

\* what the store s of a deployment holds
Persisted(s) == IF s = "file" THEN usersFile ELSE kv

\* the conditions of a consistent state that state violates
Violations(state) ==
    {c \in {"roster", "index", "duplicates", "dates", "interval", "weekStartDay", "monthDay"} :
        CASE c = "roster"       -> Len(state.users) = 0
          [] c = "index"        -> ~(0 <= state.currentIndex /\ state.currentIndex < Len(state.users))
          [] c = "duplicates"   -> \E j, k \in 1..Len(state.users) :
                                       j # k /\ state.users[j].id = state.users[k].id
          [] c = "dates"        -> NotADate \in {state.startDate, state.lastRotationDate}
          [] c = "interval"     -> state.config.frequency = "custom"
                                       /\ ~(state.config.interval >= 1)
          [] c = "weekStartDay" -> state.config.dayOfWeek # Undefined
                                       /\ state.config.dayOfWeek \notin 0..6
          [] c = "monthDay"     -> state.config.dayOfMonth # Undefined
                                       /\ state.config.dayOfMonth \notin 1..31}

\* validateRotation ran over a store that holds a state
ValidatedPersisted ==
    /\ last.op = "validateRotation"
    /\ Persisted(last.store) \notin {Null, Unavailable}

\* C12: validate() writes nothing, reports valid exactly when the persisted state violates
\* no condition (empty roster, pointer out of range, duplicate identities, unparseable
\* dates, config invariants), and otherwise lists one error for each violated condition.
C12_ValidateAccumulates ==
    ValidatedPersisted =>
        /\ last.ok
        /\ stateFile = Null
        /\ last.ret.valid = (Violations(Persisted(last.store)) = {})
        /\ Len(last.ret.errors) = Cardinality(Violations(Persisted(last.store)))

\* C12 for what validateRotation does check once the load went through:
\* an empty roster, a pointer at or past the roster's end, duplicate identities
C12_ValidateLoadedChecks ==
    (ValidatedPersisted /\ last.pre # Null) =>
        /\ last.ok
        /\ stateFile = Null
        /\ Len(last.ret.errors) =
               Cardinality(Violations(last.pre) \ {"dates", "interval", "weekStartDay", "monthDay"})
                   - (IF last.pre.currentIndex < 0 THEN 1 ELSE 0)

----------------------------------------------------------------------------
\* Properties of the roster

\* the states the stores hold
PersistedStates == {usersFile, stateFile, kv} \ {Null, Unavailable}

\* C13: in every persisted state reached from a valid seed by advanceToNext, currentOwner,
\* setOwner, addUser, removeUser and updateUserList, whatever their arguments, the roster
\* is non-empty and 0 <= currentIndex < roster.length.
C13_PointerInRoster ==
    \A state \in PersistedStates :
        /\ Len(state.users) >= 1
        /\ 0 <= state.currentIndex
        /\ state.currentIndex < Len(state.users)

\* no identity occurs twice in users
UniqueIds(users) ==
    \A j, k \in 1..Len(users) : j # k => users[j].id # users[k].id

\* every roster the stores hold has unique identities
RostersUnique == \A state \in PersistedStates : UniqueIds(state.users)

\* the step is an addUser of an identity that the loaded roster holds already
AddsExisting ==
    /\ last'.op = "addUser"
    /\ last'.pre # Null
    /\ \E k \in 1..Len(last'.pre.users) : last'.pre.users[k].id = last'.arg

\* C14: roster identities stay unique under addUser, removeUser, updateUserList,
\* advanceToNext and setOwner; addUser with an identity the roster holds fails and
\* leaves the state unchanged.
C14_IdentitiesUnique ==
    /\ []RostersUnique
    /\ [][AddsExisting => (~last'.ok /\ UNCHANGED <<usersFile, stateFile, kv>>)]_vars

\* C14 but for updateUserList given a list that holds an identity twice:
\* every other step keeps the rosters unique
C14_UniqueUnlessListed ==
    /\ [][(RostersUnique /\ ~(last'.op = "updateUserList" /\ ~UniqueIds(last'.arg)))
              => RostersUnique']_vars
    /\ [][AddsExisting => (~last'.ok /\ UNCHANGED <<usersFile, stateFile, kv>>)]_vars

\* the states the step saves
SavedByStep == ({stateFile', kv'} \ {stateFile, kv}) \ {Null, Unavailable}

\* the instant of the step as the operations write it: with or without its milliseconds
InstantsOfStep == {toISOString(now), toISOString(getCurrentDateInTimezone(now))}

\* the step saves no currentIndex other than the loaded one without a lastRotationDate of now
SavesTogether ==
    \A state \in SavedByStep :
        (last'.pre # Null /\ state.currentIndex # last'.pre.currentIndex)
            => state.lastRotationDate \in InstantsOfStep

\* C15: currentIndex and lastRotationInstant are only ever written together: every save,
\* by any operation (advance, currentOwner, setOwner, removeUser, updateUserList), that
\* changes currentIndex also sets lastRotationInstant.
C15_WrittenTogether == [][SavesTogether]_vars

\* C15 for the operations of the engine: advance, currentOwner and setOwner
C15_EngineWritesTogether ==
    [][last'.op \notin {"removeUser", "updateUserList"} => SavesTogether]_vars

----------------------------------------------------------------------------
\* Properties of concurrent skips

\* both handlers have returned
SkipsDone == skips.procs # <<>> /\ \A p \in Skippers : skips.procs[p].pc = "done"

\* the state the handlers' saves left in their store
SavedBySkips == IF skips.procs[1].store = "file" THEN stateFile ELSE kv

\* the pointer k steps after the one the handlers started from
SkippedBy(k) == (skips.from.currentIndex + k) % Len(skips.from.users)

----------------------------------------------------------------------------
\* Properties of the scheduled notification

\* the run followed a run of the period before, and both announced an owner
AnnouncedAgain ==
    /\ last.op = "scheduledRun"
    /\ last.ok
    /\ last.arg.previous # Null
    /\ last.pre # Null

\* the user after user in the roster users
SuccessorIn(users, user) == users[((FindIndex(users, user.id) + 1) % Len(users)) + 1]

\* C17: with one scheduled notification run in each successive period and no skip or
\* setOwner in between, the owner each run announces is the roster successor of the owner
\* the run of the period before announced, over the files and over KV (--use-kv).
C17_ScheduleProgresses ==
    AnnouncedAgain => last.ret.user = SuccessorIn(last.pre.users, last.arg.previous.user)

----------------------------------------------------------------------------
\* Properties of the Slack endpoint

\* the request carries Slack's signature of its own timestamp and body, at most
\* five minutes old
Verifies(req, t) ==
    /\ req.signature # <<>> /\ req.timestamp # <<>>
    /\ req.signature[1] = Hmac(SigningSecret, req.timestamp[1], req.payload)
    /\ TimeSeconds(t) - req.timestamp[1] <= 300
    /\ req.timestamp[1] - TimeSeconds(t) <= 300

\* the step is a POST to the Slack endpoint
Posted == last'.op = "POST api/slack" /\ last' # last

\* C18: a POST to the Slack endpoint changes the rotation state only if its signature
\* verifies against the signing secret and its timestamp is within 5 minutes; a request
\* whose signature or timestamp header is missing or invalid never changes the state.
C18_OnlySignedRequestsWrite ==
    [][(Posted /\ ~Verifies(last'.arg, now)) => UNCHANGED <<usersFile, stateFile, kv>>]_vars

\* C18 for the requests that carry both headers
C18_BothHeaders ==
    [][(Posted /\ ~Verifies(last'.arg, now)
            /\ last'.arg.signature # <<>> /\ last'.arg.timestamp # <<>>)
          => UNCHANGED <<usersFile, stateFile, kv>>]_vars

----------------------------------------------------------------------------
\* Properties of the weekly period

\* periodFor was asked for a Weekly config
WeeklyPeriodAsked == calc.op = "getRotationPeriod" /\ calc.config.frequency = "weekly"

\* C19: under a Weekly config the window periodFor returns for a date starts at
\* 00:00:00.000 UTC on the configured week start day d, for every d in 0..6 (Monday when
\* none is configured), and ends at 23:59:59.999 six days later.
C19_WeekStartsOnConfiguredDay ==
    WeeklyPeriodAsked =>
        /\ getUTCDay(calc.out.startDate) = ConfiguredWeekStart(calc.config)
        /\ calc.out.startDate.ms = 0
        /\ calc.out.endDate = [day |-> calc.out.startDate.day + 6, ms |-> MsPerDay - 1]
        /\ Leq(calc.out.startDate, calc.a) /\ Leq(calc.a, calc.out.endDate)

\* C19 for every week start day but Sunday
C19_WeekStartsNotSunday ==
    calc.config.dayOfWeek # 0 => C19_WeekStartsOnConfiguredDay

\* the Monday that begins week 1 of ISO year y: the week that holds 4 January
IsoWeekOne(y) == WeekStartOf(Instant(y, 1, 4, 0), 1)

\* the ISO 8601 week-numbering year of an instant
IsoWeekYear(t) ==
    IF t.day < IsoWeekOne(getUTCFullYear(t)) THEN getUTCFullYear(t) - 1
    ELSE IF t.day >= IsoWeekOne(getUTCFullYear(t) + 1) THEN getUTCFullYear(t) + 1
    ELSE getUTCFullYear(t)

\* the ISO 8601 week number of an instant
IsoWeekNumber(t) == ((t.day - IsoWeekOne(IsoWeekYear(t))) \div 7) + 1

\* periodFor was asked for a Weekly config whose weeks start on Monday
MondayWeekAsked == WeeklyPeriodAsked /\ calc.config.dayOfWeek \in {Undefined, 1}

\* C20: for a Weekly config with Monday start, periodNumber and year of the period of a
\* date are its ISO 8601 week number and week-numbering year, year boundaries included.
C20_IsoWeek ==
    MondayWeekAsked =>
        /\ calc.out.periodNumber = IsoWeekNumber(calc.a)
        /\ calc.out.year = IsoWeekYear(calc.a)

\* 2024-01-01 is week 1 of 2024
C20_Witness ==
    /\ MondayWeekAsked
    /\ calc.a.day = Instant(2024, 1, 1, 0).day
    /\ calc.out.periodNumber = 1 /\ calc.out.year = 2024

\* Sunday 2023-12-31 is week 52 of 2023, and Sunday 2021-01-03 week 53 of 2020
C20_YearEnds ==
    MondayWeekAsked =>
        /\ calc.a.day = Instant(2023, 12, 31, 0).day
               => calc.out.periodNumber = 52 /\ calc.out.year = 2023
        /\ calc.a.day = Instant(2021, 1, 3, 0).day
               => calc.out.periodNumber = 53 /\ calc.out.year = 2020

----------------------------------------------------------------------------
\* Properties of the KV store's first load

\* caller p takes the step that saves the default state
Seeds(p) == skips.procs[p].pc = "seed" /\ skips'.procs[p] # skips.procs[p]

\* C21: the KV store's load writes the default seed only when no state is persisted: once
\* a state is persisted, no loadRotationState, under any interleaving of concurrent loads
\* and skips, replaces it with the default seed or resets its currentIndex.
C21_SeedsOnlyWhenEmpty ==
    [][\A p \in Callers : (Seeds(p) /\ kv # Null) => kv' = kv]_vars

\* C21 for the loads that begin once a state is persisted
C21_LoadOfPersisted ==
    [][\A p \in Callers :
          (skips.procs[p].pc = "get" /\ skips'.procs[p] # skips.procs[p] /\ kv # Null)
              => (kv' = kv /\ skips'.procs[p].pc # "seed")]_vars

----------------------------------------------------------------------------
\* Properties of the skip's period clock

\* a skip has just returned
JustSkipped == last.op \in {"advanceToNextUser", "KV.advanceToNextUser"} /\ last.ok

\* currentOwner has run over the store of an earlier skip, in the period of that skip
OwnerAskedInPeriodOfSkip ==
    /\ last.op = "getCurrentForumOwner"
    /\ skips.from # Null
    /\ skips.from.ok
    /\ last.store = skips.from.store
    /\ last.pre # Null
    /\ getRotationPeriod(now, last.pre.config).startDate
           = getRotationPeriod(skips.from.at, last.pre.config).startDate

\* the store still points at the owner the skip moved to
PointsAtSkippedTo ==
    /\ Reloaded.ok
    /\ ArrayAt(Reloaded.val.users, Reloaded.val.currentIndex) = skips.from.owner

\* C22: a manual skip resets the period clock: after advanceToNext at instant t the
\* persisted lastRotationInstant is t, and currentOwner at any later instant of the period
\* of t returns the skipped-to owner without advancing the pointer again.
C22_SkipResetsClock ==
    /\ JustSkipped => (Reloaded.ok /\ ParseDate(Reloaded.val.lastRotationDate) = now)
    /\ OwnerAskedInPeriodOfSkip =>
           (last.ok /\ last.ret = skips.from.owner /\ PointsAtSkippedTo)

\* C22 over the KV store, the persisted instant being t less its milliseconds when the
\* skip goes through the engine
C22_SkipResetsClockKV ==
    last.store = "kv" =>
        /\ JustSkipped =>
               /\ Reloaded.ok
               /\ ParseDate(Reloaded.val.lastRotationDate) \in {now, getCurrentDateInTimezone(now)}
        /\ OwnerAskedInPeriodOfSkip =>
               (last.ok /\ last.ret = skips.from.owner /\ PointsAtSkippedTo)

----------------------------------------------------------------------------
\* Properties of removeUser

\* the step is a removeUser call over a loaded roster
RemovesFrom == last'.op = "removeUser" /\ last'.pre # Null

\* the call asks for the only member of the roster, or for somebody not on it
AsksForSoleOrAbsent ==
    \/ FindIndex(last'.pre.users, last'.arg) = -1
    \/ Len(last'.pre.users) = 1

\* C23: removeUser of the only member of the roster fails and saves nothing, and
\* removeUser with an id that is not on the roster fails and leaves the persisted
\* state unchanged.
C23_RemoveFailsUnsaved ==
    [][(RemovesFrom /\ AsksForSoleOrAbsent) =>
           (~last'.ok /\ UNCHANGED <<usersFile, stateFile, kv>>)]_vars

\* removeUser was asked for the only member of a roster, and failed
C23_Witness ==
    /\ last.op = "removeUser"
    /\ last.pre # Null
    /\ Len(last.pre.users) = 1
    /\ FindIndex(last.pre.users, last.arg) = 0
    /\ ~last.ok

\* removeUser was asked for somebody not on a roster of several, and failed
C23_WitnessAbsent ==
    /\ last.op = "removeUser"
    /\ last.pre # Null
    /\ Len(last.pre.users) > 1
    /\ FindIndex(last.pre.users, last.arg) = -1
    /\ ~last.ok

----------------------------------------------------------------------------
\* Properties of isNewWeek

IsNewWeekAsked == calc.op = "isNewWeek"

\* the two dates lie in the same week window, as getISOWeek / getCustomWeek report it
SameWeekWindow ==
    WeekOf(ParseDate(toISOString(calc.a)), WeekStartAsked).startDate
        = WeekOf(calc.b, WeekStartAsked).startDate

\* C24: isNewWeek(last, now, d) is false whenever last and now lie in the same d-anchored
\* week window and true when they lie in different windows, for every d and every pair
\* of dates, pairs either side of 1 January that share a week included.
C24_NewWeekIffOtherWindow ==
    IsNewWeekAsked => (calc.out = ~SameWeekWindow)

\* C24 for the Monday-anchored (ISO) week
C24_NewIsoWeek ==
    (IsNewWeekAsked /\ WeekStartAsked = 1) => (calc.out = ~SameWeekWindow)

----------------------------------------------------------------------------
\* Properties of the state store's round trip

\* a saveRotationState of the file store succeeded in the step
WrittenToFile == stateFile' # stateFile

\* a save of the KV store put an entry in the step
WrittenToKV == kv' # kv /\ kv' # Null

\* C25: the state store round-trips: after saveRotationState(s) or updateRotationState(i, t)
\* succeeds on the file-backed StorageService as the application configures it, the next
\* loadRotationState returns the state just written.
C25_StoreRoundTrips ==
    [][WrittenToFile =>
           /\ SS_loadRotationState(World).ok'
           /\ SS_loadRotationState(World).val' = stateFile']_vars

\* C25 over the KV store
C25_StoreRoundTripsKV ==
    [][WrittenToKV =>
           /\ loadRotationState("kv", World, now).ok'
           /\ loadRotationState("kv", World, now).val' = kv']_vars

----------------------------------------------------------------------------
\* Properties of repeated owner queries

\* currentOwner ran over a persisted state at an instant one or more periods after its
\* last rotation
OwnerAskedAfterPeriods ==
    /\ last.op = "getCurrentForumOwner"
    /\ OverPersisted
    /\ shouldAdvanceRotation(last.pre, getCurrentDateInTimezone(now))

\* the persisted pointer is the successor of the one the call found
AdvancedByOne ==
    /\ Reloaded.ok
    /\ Reloaded.val.currentIndex = (last.pre.currentIndex + 1) % Len(last.pre.users)

\* the step is a currentOwner call that follows a successful one over the same store, at
\* the same instant
OwnerAskedAgain ==
    /\ last.op = "getCurrentForumOwner" /\ last.ok /\ last.pre # Null
    /\ last'.op = "getCurrentForumOwner" /\ last'.store = last.store

\* C26: currentOwner advances the pointer by exactly one when one or more periods have
\* elapsed (no catch-up), and a second currentOwner call at the same instant over the
\* same store performs no further advance and returns the same owner.
C26_AdvancesOnce ==
    /\ [](OwnerAskedAfterPeriods => AdvancedByOne)
    /\ [][OwnerAskedAgain =>
              (last'.ok /\ last'.ret = last.ret /\ UNCHANGED <<usersFile, stateFile, kv>>)]_vars

\* C26 over the KV store
C26_AdvancesOnceKV ==
    /\ [](last.store = "kv" => (OwnerAskedAfterPeriods => AdvancedByOne))
    /\ [][(OwnerAskedAgain /\ last.store = "kv") =>
              (last'.ok /\ last'.ret = last.ret /\ UNCHANGED <<usersFile, stateFile, kv>>)]_vars

----------------------------------------------------------------------------
\* Properties of concurrent owner queries

\* both calls returned, and a new period had begun when they were made
OwnersAskedInNewPeriod ==
    /\ SkipsDone
    /\ shouldAdvanceRotation(skips.from, getCurrentDateInTimezone(now))

----------------------------------------------------------------------------
\* Properties of a period's window

\* the period of a was asked for, and b lies within its window
InWindowOfPeriod ==
    /\ calc.op = "getRotationPeriod"
    /\ Leq(calc.out.startDate, calc.b) /\ Leq(calc.b, calc.out.endDate)

\* b gets the period a got
SamePeriodAt(period) ==
    /\ period.startDate = calc.out.startDate
    /\ period.endDate = calc.out.endDate
    /\ period.periodNumber = calc.out.periodNumber

\* C28: periodFor is constant on its own window: for every config and date d, every
\* instant d' within the window of periodFor(d) gets the same startInstant, endInstant and
\* periodNumber, so that windows never overlap (BiWeekly included).
C28_ConstantOnWindow ==
    InWindowOfPeriod => SamePeriodAt(getRotationPeriod(calc.b, calc.config))

\* C28 for every frequency but bi-weekly
C28_ConstantUnlessBiWeekly ==
    (InWindowOfPeriod /\ calc.config.frequency # "bi-weekly") =>
        SamePeriodAt(getRotationPeriod(calc.b, calc.config))

----------------------------------------------------------------------------
\* Properties of the owner across removeUser

\* removeUser succeeded: it loaded last.pre and saved stateFile
UserRemoved == last.op = "removeUser" /\ last.ok

\* the member a state points at
OwnerIn(state) == ArrayAt(state.users, state.currentIndex)

\* where the removed user stood in the roster
RemovedAt == FindIndex(last.pre.users, last.arg)

\* C29: removeUser keeps ownership stable: removing a non-owner leaves the identity of
\* roster[currentIndex] unchanged in the saved state, removing the current owner makes the
\* member after them the owner (the first member when the owner was last), and the saved
\* currentIndex is always inside the shortened roster.
C29_RemoveKeepsOwnership ==
    UserRemoved =>
        /\ stateFile.users = Splice(last.pre.users, RemovedAt)
        /\ stateFile.currentIndex \in 0..(Len(stateFile.users) - 1)
        /\ RemovedAt # last.pre.currentIndex => OwnerIn(stateFile) = OwnerIn(last.pre)
        /\ RemovedAt = last.pre.currentIndex =>
               OwnerIn(stateFile)
                   = ArrayAt(last.pre.users, (last.pre.currentIndex + 1) % Len(last.pre.users))

\* the owner, last of three, was removed and the first member took over
C29_Witness ==
    /\ UserRemoved
    /\ Len(last.pre.users) = 3
    /\ last.pre.currentIndex = 2 /\ RemovedAt = 2
    /\ stateFile.currentIndex = 0 /\ OwnerIn(stateFile) = last.pre.users[1]

\* a member before the owner was removed and the pointer followed the owner
C29_WitnessBefore ==
    /\ UserRemoved
    /\ RemovedAt < last.pre.currentIndex
    /\ stateFile.currentIndex = last.pre.currentIndex - 1

----------------------------------------------------------------------------
\* Properties of the preview against the pointer

\* over the store s, the schedule's first entry names the owner the read-only query returns
FirstEntryIsOwner(upcoming, owner) ==
    (upcoming.ok /\ owner.ok) => upcoming.val[1].user = owner.val

\* C30: the preview agrees with the pointer: in every reachable state, after a manual skip
\* or a setOwner too, the owner in the first entry of upcomingSchedule is the one
\* currentOwnerReadOnly returns.
C30_PreviewAgreesWithPointer ==
    \A s \in EngineStores :
        FirstEntryIsOwner(RS_getUpcomingRotation(s, World, now, 1),
                          RS_getCurrentForumOwnerReadOnly(s, World, now))

====
